---- MODULE Spec2Model ----
(***************************************************************************)
(* Turing machine simulator "bb": the RLE tape (src/tape_rle.c), the flat  *)
(* tape (src/tape_flat.c), the bit-packed tape (src/tape_bit.c) and the    *)
(* stepping driver (src/tm_run.c), as state machines.                      *)
(*                                                                         *)
(* The process either runs (fault = "none"), has left through the ERROR    *)
(* macro, which prints and calls exit(1) (fault = "error"), or has been    *)
(* aborted by a failed assert (fault = "assert").  Nothing runs after a    *)
(* fault.                                                                  *)
(***************************************************************************)
EXTENDS Integers, Sequences, FiniteSets, TLC

VARIABLES
    def,    \* struct tm_def_t: the transition table of the run
    run,    \* struct tm_run_t: steps and state
    rle,    \* struct rle_tape_t with the heap of its rle_elem_t, or NoTape
    flat,   \* struct flat_tape_t, or NoTape
    bit,    \* struct bit_tape_t with its blocks, or NoTape
    build,  \* what this build makes of a shift by the width of the word
    heap,   \* what this build makes of an access past the end of a block
    txt,    \* the program text handed to tm_def_parse
    out,    \* the characters tm_def_print has written
    mm,     \* the activation of tm_def_to_mm_def and mm_determine_instr
    tape_b, \* the second tape of tm_flat_tape_cmp or tm_rle_tape_cmp, or NoTape
    call,   \* the activation of tm_run_steps: pc, max_steps, local steps
    fault,  \* "none", "error" (ERROR: exit(1)), "assert" (abort) or "trap"
    last,   \* history: the last operation, its return value, call counts
    ref     \* history: a two-way infinite blank tape driven by the same calls

vars == <<def, run, rle, flat, bit, build, heap, txt, out, mm, tape_b, call, fault, last, ref>>

(***************************************************************************)
(* Bounds of the exploration.                                              *)
(***************************************************************************)
\* heads are moved inside -MaxPos..MaxPos
MaxPos == 2
\* tape operations write symbols 0..MaxSym
MaxSym == 1

\* flat tapes are created with 1..MaxInitLen cells
MaxInitLen == 3
\* a run is followed for MaxRunSteps steps
MaxRunSteps == 6
\* tm_run_steps is called with max_steps in 0..MaxBudget
MaxBudget == 2

Syms == 0..MaxSym
Positions == (0 - MaxPos)..MaxPos

NoTape == [none |-> TRUE]
NoMm == [pc |-> "idle"]

(***************************************************************************)
(* RLE tape, src/tape_rle.c.  The heap is a function from addresses        *)
(* 1..MaxElems to rle_elem_t cells; `live` tells malloc'ed from free'd.    *)
(***************************************************************************)
NULL == 0

\* enough cells for one segment per cell a run visits plus the three a split
\* allocates
MaxElems == 2 * MaxPos + 10

FreeElem == [left |-> NULL, right |-> NULL, sym |-> 0, len |-> 0, live |-> FALSE]

EmptyHeap == [a \in 1..MaxElems |-> FreeElem]

\* malloc: the lowest free address
Malloc(h) == CHOOSE a \in 1..MaxElems : ~h[a].live /\ \A b \in 1..(a - 1) : h[b].live

\* free(elem)
Free(h, e) == [h EXCEPT ![e] = FreeElem]

\* rle_elem_init(sym, len), stored at address a
RleElemInit(h, a, sym, len) ==
    [h EXCEPT ![a] = [left |-> NULL, right |-> NULL, sym |-> sym, len |-> len, live |-> TRUE]]

\* rle_elem_link without the right->left = left of line 63
RleElemLinkOneWay(h, l, r) == IF l # NULL THEN [h EXCEPT ![l].right = r] ELSE h

\* rle_elem_link(left, right): NULLs allowed
RleElemLink(h, l, r) ==
    LET h1 == IF l # NULL THEN [h EXCEPT ![l].right = r] ELSE h
    IN  IF r # NULL THEN [h1 EXCEPT ![r].left = l] ELSE h1

\* rle_elem_shrink without the elem->len-- of line 44
RleElemShrinkNoDecrement(h, e) == h

\* rle_elem_shrink without the free(elem) of line 50
RleElemShrinkNoFree(h, e) ==
    LET h1 == [h EXCEPT ![e].len = @ - 1]
    IN  IF h1[e].len <= 0
        THEN LET l  == h1[e].left
                 r  == h1[e].right
                 h2 == IF l # NULL THEN [h1 EXCEPT ![l].right = r] ELSE h1
             IN  IF r # NULL THEN [h2 EXCEPT ![r].left = l] ELSE h2
        ELSE h1

\* rle_elem_shrink(elem)
RleElemShrink(h, e) ==
    LET h1 == [h EXCEPT ![e].len = @ - 1]
    IN  IF h1[e].len <= 0
        THEN LET l  == h1[e].left
                 r  == h1[e].right
                 h2 == IF l # NULL THEN [h1 EXCEPT ![l].right = r] ELSE h1
                 h3 == IF r # NULL THEN [h2 EXCEPT ![r].left = l] ELSE h2
             IN  Free(h3, e)
        ELSE h1

\* rle_tape_init: one segment (0, 1), head at its only cell
RleTapeInit ==
    [elems |-> RleElemInit(EmptyHeap, 1, 0, 1), curr |-> 1, rle_pos |-> 0, rel_pos |-> 0]

\* rle_tape_read
RleTapeRead(t) == t.elems[t.curr].sym

\* the split branch of rle_tape_write (lines 198-231); the asserts of lines
\* 221-226 restate the links just made
RleSplit(t, sym) ==
    LET h         == t.elems
        orig      == t.curr
        new_mid   == Malloc(h)
        h1        == RleElemInit(h, new_mid, sym, 1)
        left_len  == t.rle_pos
        new_left  == Malloc(h1)
        h2        == IF left_len > 0
                     THEN RleElemLink(
                              RleElemLink(RleElemInit(h1, new_left, h1[orig].sym, left_len),
                                          h1[orig].left, new_left),
                              new_left, new_mid)
                     ELSE RleElemLink(h1, h1[orig].left, new_mid)
        right_len == h2[orig].len - t.rle_pos - 1
        new_right == Malloc(h2)
        h3        == IF right_len > 0
                     THEN RleElemLink(
                              RleElemLink(RleElemInit(h2, new_right, h2[orig].sym, right_len),
                                          new_right, h2[orig].right),
                              new_mid, new_right)
                     ELSE RleElemLink(h2, new_mid, h2[orig].right)
    IN  [t EXCEPT !.curr = new_mid, !.rle_pos = 0, !.elems = Free(h3, orig)]

\* rle_tape_write(tape, sym)
RleTapeWrite(t, sym) ==
    LET h    == t.elems
        orig == t.curr
    IN  IF h[orig].sym = sym
        THEN t
        ELSE IF t.rle_pos = 0 /\ h[orig].left # NULL /\ h[h[orig].left].sym = sym
        THEN LET c  == h[orig].left
                 h1 == [h EXCEPT ![c].len = @ + 1]
             IN  [t EXCEPT !.curr = c, !.rle_pos = h1[c].len - 1,
                           !.elems = RleElemShrink(h1, orig)]
        ELSE IF t.rle_pos = h[orig].len /\ h[orig].right # NULL /\ h[h[orig].right].sym = sym
        THEN LET c  == h[orig].right
                 h1 == [h EXCEPT ![c].len = @ + 1]
             IN  [t EXCEPT !.curr = c, !.rle_pos = 0,
                           !.elems = RleElemShrink(h1, orig)]
        ELSE RleSplit(t, sym)

\* rle_tape_move that enters the left neighbour at offset len, not len - 1
RleTapeMovePastEnd(t, delta) ==
    LET t1   == [t EXCEPT !.rel_pos = @ + delta]
        h    == t.elems
        orig == t.curr
    IN  IF t.rle_pos + delta < 0
        THEN IF h[orig].left = NULL
             THEN IF h[orig].sym = 0
                  THEN [t1 EXCEPT !.elems = [h EXCEPT ![orig].len = @ + 1]]
                  ELSE LET new_left == Malloc(h)
                           h1 == RleElemLink(RleElemInit(h, new_left, 0, 1), new_left, orig)
                       IN  [t1 EXCEPT !.elems = h1, !.curr = h1[orig].left,
                                      !.rle_pos = h1[h1[orig].left].len - 1]
             ELSE [t1 EXCEPT !.curr = h[orig].left, !.rle_pos = h[h[orig].left].len]
        ELSE IF t.rle_pos + delta >= h[orig].len
        THEN IF h[orig].right = NULL
             THEN IF h[orig].sym = 0
                  THEN [t1 EXCEPT !.elems = [h EXCEPT ![orig].len = @ + 1],
                                  !.rle_pos = @ + 1]
                  ELSE LET new_right == Malloc(h)
                           h1 == RleElemLink(RleElemInit(h, new_right, 0, 1), orig, new_right)
                       IN  [t1 EXCEPT !.elems = h1, !.curr = h1[orig].right,
                                      !.rle_pos = h1[h1[orig].right].len - 1]
             ELSE [t1 EXCEPT !.curr = h[orig].right, !.rle_pos = 0]
        ELSE [t1 EXCEPT !.rle_pos = @ + delta]

\* rle_tape_move(tape, delta), delta in {-1, 1}; the INT_MIN/INT_MAX asserts
\* of lines 257-260 hold for every position in Positions
RleTapeMove(t, delta) ==
    LET t1   == [t EXCEPT !.rel_pos = @ + delta]
        h    == t.elems
        orig == t.curr
    IN  IF t.rle_pos + delta < 0
        THEN IF h[orig].left = NULL
             THEN IF h[orig].sym = 0
                  THEN [t1 EXCEPT !.elems = [h EXCEPT ![orig].len = @ + 1]]
                  ELSE LET new_left == Malloc(h)
                           h1 == RleElemLink(RleElemInit(h, new_left, 0, 1), new_left, orig)
                       IN  [t1 EXCEPT !.elems = h1, !.curr = h1[orig].left,
                                      !.rle_pos = h1[h1[orig].left].len - 1]
             ELSE [t1 EXCEPT !.curr = h[orig].left, !.rle_pos = h[h[orig].left].len - 1]
        ELSE IF t.rle_pos + delta >= h[orig].len
        THEN IF h[orig].right = NULL
             THEN IF h[orig].sym = 0
                  THEN [t1 EXCEPT !.elems = [h EXCEPT ![orig].len = @ + 1],
                                  !.rle_pos = @ + 1]
                  ELSE LET new_right == Malloc(h)
                           h1 == RleElemLink(RleElemInit(h, new_right, 0, 1), orig, new_right)
                       IN  [t1 EXCEPT !.elems = h1, !.curr = h1[orig].right,
                                      !.rle_pos = h1[h1[orig].right].len - 1]
             ELSE [t1 EXCEPT !.curr = h[orig].right, !.rle_pos = 0]
        ELSE [t1 EXCEPT !.rle_pos = @ + delta]

(***************************************************************************)
(* Walking the chain.  The walks carry fuel, so that they end on a chain   *)
(* with a cycle too.                                                       *)
(***************************************************************************)
RECURSIVE WalkLeft(_, _, _)
\* the address reached from e by following left pointers to the end
WalkLeft(h, e, fuel) ==
    IF fuel = 0 \/ h[e].left = NULL THEN e ELSE WalkLeft(h, h[e].left, fuel - 1)

RECURSIVE WalkRight(_, _, _)
\* the addresses met from e on by following right pointers
WalkRight(h, e, fuel) ==
    IF e = NULL \/ fuel = 0 THEN <<>> ELSE <<e>> \o WalkRight(h, h[e].right, fuel - 1)

\* the chain of the tape, leftmost segment first (as rle_tape_free walks it)
RleChain(t) == WalkRight(t.elems, WalkLeft(t.elems, t.curr, MaxElems), MaxElems)

LiveElems(h) == {a \in 1..MaxElems : h[a].live}

\* every pointer leads to a malloc'ed cell, and the chain holds each
\* malloc'ed cell exactly once
RleHeapSound(t) ==
    LET h == t.elems
        c == RleChain(t)
    IN  /\ t.curr \in LiveElems(h)
        /\ \A a \in LiveElems(h) : /\ h[a].left \in LiveElems(h) \cup {NULL}
                                   /\ h[a].right \in LiveElems(h) \cup {NULL}
        /\ {c[i] : i \in 1..Len(c)} = LiveElems(h)
        /\ Len(c) = Cardinality(LiveElems(h))

\* Addresses mean nothing but identity: a sound heap is kept with its cells
\* renamed 1, 2, ... along the chain, which is one of the placements malloc
\* can produce.  An unsound heap is left as it is.
RleRename(t) ==
    IF ~RleHeapSound(t) THEN t
    ELSE LET h   == t.elems
             c   == RleChain(t)
             new == [a \in LiveElems(h) \cup {NULL} |->
                        IF a = NULL THEN NULL ELSE CHOOSE i \in 1..Len(c) : c[i] = a]
         IN  [t EXCEPT !.curr = new[t.curr],
                       !.elems = [i \in 1..MaxElems |->
                                     IF i <= Len(c)
                                     THEN [h[c[i]] EXCEPT !.left = new[h[c[i]].left],
                                                          !.right = new[h[c[i]].right]]
                                     ELSE FreeElem]]

(***************************************************************************)
(* Flat tape, src/tape_flat.c.  syms is the malloc'ed array, indexed from  *)
(* 0.                                                                      *)
(***************************************************************************)
\* what a byte of malloc'ed, never written memory may hold: zero or not
Garbage == {0, 1}

\* flat_tape_init(len, init_pos, sym_bits), with 0 <= init_pos < len; mem is
\* what malloc handed out for syms, which the function does not clear
FlatTapeInit(len, init_pos, mem) ==
    [syms |-> mem, len |-> len, rel_pos |-> 0, init_pos |-> init_pos]

\* flat_tape_move without the re-centring: the old cells copied to offset 0
FlatTapeMoveNoOffset(t, delta) ==
    LET mem_pos == t.rel_pos + t.init_pos
    IN  IF mem_pos + delta < 0 \/ mem_pos + delta >= t.len
        THEN [t EXCEPT !.syms = [i \in 0..(2 * t.len - 1) |->
                                    IF i < t.len THEN t.syms[i] ELSE 0],
                       !.len = 2 * t.len,
                       !.rel_pos = @ + delta]
        ELSE [t EXCEPT !.rel_pos = @ + delta]

\* flat_tape_move(tape, delta) up to its closing assert
FlatTapeMove(t, delta) ==
    LET mem_pos == t.rel_pos + t.init_pos
    IN  IF mem_pos + delta < 0 \/ mem_pos + delta >= t.len
        THEN LET old_len == t.len
                 new_len == old_len * 2
                 offset  == old_len \div 2
                 new_syms == [i \in 0..(new_len - 1) |->
                                 IF i < offset THEN 0
                                 ELSE IF i < offset + old_len THEN t.syms[i - offset]
                                 ELSE 0]
             IN  [t EXCEPT !.syms = new_syms,
                           !.len = new_len,
                           !.init_pos = @ + offset,
                           !.rel_pos = @ + delta]
        ELSE [t EXCEPT !.rel_pos = @ + delta]

\* the assert that closes flat_tape_move, the invariant of struct flat_tape_t
FlatHeadInside(t) == 0 <= t.rel_pos + t.init_pos /\ t.rel_pos + t.init_pos < t.len

\* flat_tape_write(tape, sym)
FlatTapeWrite(t, sym) == [t EXCEPT !.syms[t.rel_pos + t.init_pos] = sym]

\* flat_tape_read(tape)
FlatTapeRead(t) == t.syms[t.rel_pos + t.init_pos]

(***************************************************************************)
(* The bit-packed tape (src/tape_bit.c): n_syms symbols of sym_bits bits   *)
(* each, packed into blocks of BLOCK_BITS bits.  A block (unsigned long)   *)
(* is the set of the positions of its one bits, so & is \cap, | is \cup    *)
(* and ~ is the complement in AllBits.  A sym_t is a number 0..255.        *)
(***************************************************************************)
\* CHAR_BIT * sizeof (bit_block_t)
BLOCK_BITS == 64
\* CHAR_BIT * sizeof (sym_t)
MAX_SYM_BITS == 8

AllBits == 0..(BLOCK_BITS - 1)

\* the builds differ in what a shift by BLOCK_BITS or more leaves (undefined
\* in C): the count taken modulo BLOCK_BITS, or every bit shifted out
Builds == {"wrap", "zero"}

\* (bit_block_t) v for a number v
ToBlock(v) == {b \in 0..30 : (v \div (2 ^ b)) % 2 = 1}

\* the number a set of bit positions stands for
RECURSIVE BlockValue(_)
BlockValue(x) ==
    IF x = {} THEN 0
    ELSE LET b == CHOOSE c \in x : TRUE IN (2 ^ b) + BlockValue(x \ {b})

\* (sym_t) x keeps the low MAX_SYM_BITS bits of the block
ToSymT(x) == BlockValue(x \cap (0..(MAX_SYM_BITS - 1)))

\* the count a shift by n is carried out with
ShiftCount(n, bld) ==
    IF 0 <= n /\ n < BLOCK_BITS THEN n
    ELSE IF bld = "wrap" THEN n % BLOCK_BITS ELSE BLOCK_BITS

\* x << n and x >> n on unsigned long
Shl(x, n, bld) == {b + ShiftCount(n, bld) : b \in x} \cap AllBits
Shr(x, n, bld) == {b - ShiftCount(n, bld) : b \in x} \cap AllBits

\* x - 1UL on unsigned long
Dec(x) ==
    IF x = {} THEN AllBits
    ELSE LET m == CHOOSE c \in x : \A d \in x : c <= d
         IN (x \ {m}) \cup (0..(m - 1))

\* bitmask(from, to) of src/util.c
Bitmask(from, to, bld) == Shl(Dec(Shl({0}, to - from, bld)), from, bld)

\* n_blocks_for(n_syms, sym_bits)
NBlocksFor(n_syms, sym_bits) == (n_syms * sym_bits + BLOCK_BITS) \div BLOCK_BITS

\* bit_tape_init(sym_bits, n_syms, init_pos): the blocks are cleared
BitTapeInit(sym_bits, n_syms, init_pos) ==
    [n_syms |-> n_syms, sym_bits |-> sym_bits, rel_pos |-> 0, init_pos |-> init_pos,
     blocks |-> [u \in 0..(NBlocksFor(n_syms, sym_bits) - 1) |-> {}]]

\* the result of a read: the exit taken and the symbol returned
BitRet(f, sym) == [fault |-> f, sym |-> sym]

\* bit_tape_read with the head on cell sym_idx of the buffer
BitTapeReadAt(t, sym_idx, bld) ==
    LET bit_from == sym_idx * t.sym_bits
        bit_to == (sym_idx + 1) * t.sym_bits
        unit_from == bit_from \div BLOCK_BITS
        unit_to == bit_to \div BLOCK_BITS
        shift_low == bit_from % BLOCK_BITS
        shift_high == bit_to % BLOCK_BITS
        low_mask == Bitmask(shift_low, BLOCK_BITS, bld)
        low_unit == Shr(t.blocks[unit_from] \cap low_mask, shift_low, bld)
        high_mask == Bitmask(0, shift_high, bld)
        high_unit == Shl(t.blocks[unit_to] \cap high_mask, t.sym_bits - shift_high, bld)
    IN  IF ~(0 <= sym_idx /\ sym_idx < t.n_syms) THEN BitRet("assert", 0)
        ELSE IF ~(unit_to < NBlocksFor(t.n_syms, t.sym_bits)) THEN BitRet("assert", 0)
        ELSE IF unit_from = unit_to
        THEN BitRet("none", ToSymT(Shr(t.blocks[unit_from]
                                         \cap Bitmask(shift_low, shift_high, bld),
                                       shift_low, bld)))
        ELSE IF low_unit \cap high_unit # {} THEN BitRet("assert", 0)
        ELSE BitRet("none", ToSymT(low_unit \cup high_unit))

\* bit_tape_read(tape)
BitTapeRead(t, bld) == BitTapeReadAt(t, t.init_pos + t.rel_pos, bld)

\* the result of a write: the exit taken and the tape left
BitOut(f, t) == [fault |-> f, tape |-> t]

\* bit_tape_write that stores the shifted symbol over the whole word, without
\* the read-modify-write under a mask
BitTapeWriteWholeWord(t, sym, bld) ==
    LET bit_from == (t.init_pos + t.rel_pos) * t.sym_bits
    IN  BitOut("none", [t EXCEPT !.blocks[bit_from \div BLOCK_BITS] =
                            Shl(ToBlock(sym), bit_from % BLOCK_BITS, bld)])

\* bit_tape_write(tape, sym), sym a sym_t
BitTapeWrite(t, sym, bld) ==
    LET sym_idx == t.init_pos + t.rel_pos
        bit_from == sym_idx * t.sym_bits
        bit_to == (sym_idx + 1) * t.sym_bits
        unit_from == bit_from \div BLOCK_BITS
        unit_to == bit_to \div BLOCK_BITS
        shift_low == bit_from % BLOCK_BITS
        shift_high == bit_to % BLOCK_BITS
        mask == Bitmask(shift_low, shift_high, bld)
        sym_mask == Bitmask(0, BLOCK_BITS - shift_low, bld)
        low_mask == Bitmask(shift_low, BLOCK_BITS, bld)
        high_mask == Bitmask(0, shift_high, bld)
        high_unit == (t.blocks[unit_from] \ low_mask)
                         \cup Shl(ToBlock(sym) \cap sym_mask, shift_low, bld)
        low_unit == (t.blocks[unit_to] \ high_mask)
                        \cup Shr(ToBlock(sym) \ sym_mask, t.sym_bits - shift_high, bld)
    IN  IF ~(0 <= sym_idx /\ sym_idx < t.n_syms) THEN BitOut("assert", t)
        ELSE IF ToBlock(sym) \ Bitmask(0, t.sym_bits, bld) # {} THEN BitOut("assert", t)
        ELSE IF ~(unit_to < NBlocksFor(t.n_syms, t.sym_bits)) THEN BitOut("assert", t)
        ELSE IF unit_from = unit_to
        THEN BitOut("none", [t EXCEPT !.blocks[unit_from] =
                                 (@ \ mask) \cup Shl(ToBlock(sym), shift_low, bld)])
        ELSE BitOut("none", [t EXCEPT !.blocks =
                                 [@ EXCEPT ![unit_from] = high_unit, ![unit_to] = low_unit]])

\* bit_tape_move without the check of lines 142-144
BitTapeMoveUnchecked(t, delta) == BitOut("none", [t EXCEPT !.rel_pos = @ + delta])

\* bit_tape_move(tape, delta): leaving the buffer is an ERROR
BitTapeMove(t, delta) ==
    LET u == [t EXCEPT !.rel_pos = @ + delta]
    IN  BitOut(IF 0 <= u.rel_pos + u.init_pos /\ u.rel_pos + u.init_pos < u.n_syms
               THEN "none" ELSE "error", u)

(***************************************************************************)
(* The reference tape: every cell blank until written, one head.           *)
(***************************************************************************)
RefInit == [cells |-> [p \in Positions |-> 0], pos |-> 0]
RefRead(r) == r.cells[r.pos]
RefWrite(r, sym) == [r EXCEPT !.cells[r.pos] = sym]
RefMove(r, delta) == [r EXCEPT !.pos = @ + delta]

NoDef == [n_syms |-> 0, n_states |-> 0]
NoRun == [steps |-> 0, state |-> 0]
NoCall == [pc |-> "idle", max_steps |-> 0, steps |-> 0, taken |-> 0]
NoLast == [op |-> "init", ret |-> 0, step_ret |-> 0, len_before |-> 0, calls |-> 0, done |-> 0]

(***************************************************************************)
(* Transition tables, src/tm_def.h and src/tm_def.c.                       *)
(***************************************************************************)
DIR_LEFT == 0
DIR_RIGHT == 1
\* 'Z' - 'A'
STATE_UNDEF == 25
\* 'H' - 'A'
STATE_H == 7

\* struct tm_instr_t as the text "<sym><dir><state>" names it
Instr(sym, dir, state) == [sym |-> sym, state |-> state, dir |-> dir]

\* struct tm_def_t: instr_tab is addressed by state * n_syms + sym
Def(n_syms, n_states, tab) ==
    [n_syms |-> n_syms, n_states |-> n_states,
     instr_tab |-> [idx \in 0..(Len(tab) - 1) |-> tab[idx + 1]]]

\* the tables of the programs the runs are taken over
Programs == {
    \* 1RB1LB_1LA1RZ
    Def(2, 2, <<Instr(1, DIR_RIGHT, 1), Instr(1, DIR_LEFT, 1),
                Instr(1, DIR_LEFT, 0), Instr(1, DIR_RIGHT, STATE_UNDEF)>>),
    \* 1RA1RA
    Def(2, 1, <<Instr(1, DIR_RIGHT, 0), Instr(1, DIR_RIGHT, 0)>>),
    \* 1LA0LA
    Def(2, 1, <<Instr(1, DIR_LEFT, 0), Instr(0, DIR_LEFT, 0)>>),
    \* 1RZ1RZ
    Def(2, 1, <<Instr(1, DIR_RIGHT, STATE_UNDEF), Instr(1, DIR_RIGHT, STATE_UNDEF)>>),
    \* 1LZ0RA
    Def(2, 1, <<Instr(1, DIR_LEFT, STATE_UNDEF), Instr(0, DIR_RIGHT, 0)>>),
    \* 1RB1RH_1LA0RB
    Def(2, 2, <<Instr(1, DIR_RIGHT, 1), Instr(1, DIR_RIGHT, STATE_H),
                Instr(1, DIR_LEFT, 0), Instr(0, DIR_RIGHT, 1)>>),
    \* 0RB0LA_1LA1RB
    Def(2, 2, <<Instr(0, DIR_RIGHT, 1), Instr(0, DIR_LEFT, 0),
                Instr(1, DIR_LEFT, 0), Instr(1, DIR_RIGHT, 1)>>),
    \* 1LB1RZ_1RA0LB
    Def(2, 2, <<Instr(1, DIR_LEFT, 1), Instr(1, DIR_RIGHT, STATE_UNDEF),
                Instr(1, DIR_RIGHT, 0), Instr(0, DIR_LEFT, 1)>>),
    \* 1RB2LB1RZ_2LA2RB1LB
    Def(3, 2, <<Instr(1, DIR_RIGHT, 1), Instr(2, DIR_LEFT, 1), Instr(1, DIR_RIGHT, STATE_UNDEF),
                Instr(2, DIR_LEFT, 0), Instr(2, DIR_RIGHT, 1), Instr(1, DIR_LEFT, 1)>>) }

\* the two asserts that open tm_def_lookup
TmDefLookupInRange(d, state, sym) ==
    /\ 0 <= state /\ state < d.n_states
    /\ 0 <= sym /\ sym < d.n_syms

\* tm_def_lookup(def, state, sym)
TmDefLookup(d, state, sym) == d.instr_tab[state * d.n_syms + sym]

(***************************************************************************)
(* The table as src/tm_def.c keeps it: sym_tab and state_tab hold one byte *)
(* per slot, dir_tab one bit per slot in words of DIR_TAB_BITS_PER_FIELD   *)
(* bits.  dir_bytes is the size tm_def_init asks malloc for; an access to  *)
(* a word that ends past it is outside the block.                          *)
(***************************************************************************)
\* CHAR_BIT * sizeof (unsigned long)
DIR_TAB_BITS_PER_FIELD == 64
\* sizeof *def->dir_tab
DIR_TAB_FIELD_BYTES == 8

\* an access outside a malloc'ed block is undefined: a build either finds
\* usable memory there ("slack") or stops the process ("trap")
Heaps == {"slack", "trap"}

\* the byte left in malloc'ed memory: every bit 0 or every bit 1
TabGarbage == {0, 255}

TabOut(f, d) == [fault |-> f, def |-> d]

\* tm_def_init(n_syms, n_states); mem is what malloc left in the tables
TmDefInit(n_syms, n_states, mem) ==
    LET tab_size == n_syms * n_states
    IN  IF ~(n_syms > 0 /\ n_states > 0) THEN TabOut("assert", NoDef)
        ELSE TabOut("none",
                 [n_syms |-> n_syms, n_states |-> n_states,
                  sym_tab |-> [idx \in 0..(tab_size - 1) |-> mem],
                  state_tab |-> [idx \in 0..(tab_size - 1) |-> mem],
                  dir_tab |-> [f \in 0..((tab_size - 1) \div DIR_TAB_BITS_PER_FIELD) |->
                                   IF mem = 0 THEN {} ELSE 0..(DIR_TAB_BITS_PER_FIELD - 1)],
                  dir_bytes |-> (tab_size * DIR_TAB_FIELD_BYTES) \div DIR_TAB_BITS_PER_FIELD])

\* the word dir_tab[field_idx] lies inside the block malloc returned
DirWordInside(d, field_idx) == DIR_TAB_FIELD_BYTES * (field_idx + 1) <= d.dir_bytes

\* tm_def_store assigning the whole word of dir_tab instead of one bit
TmDefStoreWholeWord(d, state, sym, instr, hp) ==
    LET idx == state * d.n_syms + sym
        field_idx == idx \div DIR_TAB_BITS_PER_FIELD
        bit_idx == idx % DIR_TAB_BITS_PER_FIELD
        e == [d EXCEPT !.sym_tab[idx] = instr.sym, !.state_tab[idx] = instr.state]
    IN  IF ~(0 <= state /\ state < d.n_states) THEN TabOut("assert", d)
        ELSE IF ~(0 <= sym /\ sym < d.n_syms) THEN TabOut("assert", d)
        ELSE IF ~(0 <= instr.sym /\ instr.sym < d.n_syms) THEN TabOut("assert", d)
        ELSE IF ~(instr.dir = DIR_LEFT \/ instr.dir = DIR_RIGHT) THEN TabOut("assert", d)
        ELSE IF ~DirWordInside(d, field_idx) /\ hp = "trap" THEN TabOut("trap", e)
        ELSE TabOut("none", [e EXCEPT !.dir_tab[field_idx] =
                                 IF instr.dir = 0 THEN {} ELSE {bit_idx}])

\* tm_def_store(def, state, sym, instr)
TmDefStore(d, state, sym, instr, hp) ==
    LET idx == state * d.n_syms + sym
        field_idx == idx \div DIR_TAB_BITS_PER_FIELD
        bit_idx == idx % DIR_TAB_BITS_PER_FIELD
        e == [d EXCEPT !.sym_tab[idx] = instr.sym, !.state_tab[idx] = instr.state]
    IN  IF ~(0 <= state /\ state < d.n_states) THEN TabOut("assert", d)
        ELSE IF ~(0 <= sym /\ sym < d.n_syms) THEN TabOut("assert", d)
        ELSE IF ~(0 <= instr.sym /\ instr.sym < d.n_syms) THEN TabOut("assert", d)
        ELSE IF ~(instr.dir = DIR_LEFT \/ instr.dir = DIR_RIGHT) THEN TabOut("assert", d)
        ELSE IF ~DirWordInside(d, field_idx) /\ hp = "trap" THEN TabOut("trap", e)
        ELSE TabOut("none", [e EXCEPT !.dir_tab[field_idx] =
                                 IF instr.dir = 0 THEN @ \ {bit_idx} ELSE @ \cup {bit_idx}])

LookupOut(f, instr) == [fault |-> f, instr |-> instr]

\* tm_def_lookup(def, state, sym) on the three tables
TmDefLookupPacked(d, state, sym, hp) ==
    LET idx == state * d.n_syms + sym
        field_idx == idx \div DIR_TAB_BITS_PER_FIELD
        bit_idx == idx % DIR_TAB_BITS_PER_FIELD
    IN  IF ~TmDefLookupInRange(d, state, sym) THEN LookupOut("assert", Instr(0, 0, 0))
        ELSE IF ~DirWordInside(d, field_idx) /\ hp = "trap" THEN LookupOut("trap", Instr(0, 0, 0))
        ELSE LookupOut("none", Instr(d.sym_tab[idx],
                                     IF bit_idx \in d.dir_tab[field_idx] THEN 1 ELSE 0,
                                     d.state_tab[idx]))

(***************************************************************************)
(* Program texts are sequences of character codes; the NUL that ends the   *)
(* C string is the character at index Len.                                 *)
(***************************************************************************)
Ascii == ("-" :> 45) @@ ("0" :> 48) @@ ("1" :> 49) @@ ("2" :> 50) @@ ("9" :> 57)
         @@ (":" :> 58) @@ ("<" :> 60) @@ (">" :> 62) @@ ("A" :> 65) @@ ("B" :> 66)
         @@ ("C" :> 67) @@ ("H" :> 72) @@ ("L" :> 76) @@ ("R" :> 82) @@ ("Z" :> 90)
         @@ ("_" :> 95) @@ ("x" :> 120) @@ (" " :> 32) @@ ("\n" :> 10)

\* txt[i]
CharAt(t, i) == IF i < Len(t) THEN t[i + 1] ELSE 0

\* the loop that opens tm_def_parse: the index of the first '_' or NUL
RECURSIVE FirstRowWidth(_, _)
FirstRowWidth(t, cols) ==
    IF CharAt(t, cols) # 0 /\ CharAt(t, cols) # Ascii["_"]
    THEN FirstRowWidth(t, cols + 1) ELSE cols

\* the result of tm_def_parse: the exit taken, the table, the warnings printed
ParseOut(f, d, warns) == [fault |-> f, def |-> d, warns |-> warns]

\* the two loops of tm_def_parse from cell (i_state, i_sym) on
RECURSIVE ParseCells(_, _, _, _, _, _)
ParseCells(t, d, i_state, i_sym, warns, hp) ==
    LET stride == d.n_syms * 3 + 1
        txt_idx == i_state * stride + i_sym * 3
        sym_c == CharAt(t, txt_idx)
        dir_c == CharAt(t, txt_idx + 1)
        state_c == CharAt(t, txt_idx + 2)
        term == CharAt(t, i_state * stride + d.n_syms * 3)
        undef == TmDefStore(d, i_state, i_sym, Instr(0, DIR_LEFT, STATE_UNDEF), hp)
        warn == IF (state_c = 0 \/ state_c < Ascii["A"] \/ state_c - Ascii["A"] >= d.n_states)
                    /\ state_c # Ascii["Z"] /\ state_c # Ascii["H"]
                THEN 1 ELSE 0
        stored == TmDefStore(d, i_state, i_sym,
                             Instr((sym_c - Ascii["0"]) % 256,
                                   IF dir_c = Ascii["L"] THEN DIR_LEFT ELSE DIR_RIGHT,
                                   (state_c - Ascii["A"]) % 256), hp)
    IN  IF i_state >= d.n_states THEN ParseOut("none", d, warns)
        ELSE IF i_sym >= d.n_syms
        THEN IF i_state < d.n_states - 1 /\ term # Ascii["_"] THEN ParseOut("error", d, warns)
             ELSE IF i_state = d.n_states - 1 /\ term # 0 THEN ParseOut("error", d, warns)
             ELSE ParseCells(t, d, i_state + 1, 0, warns, hp)
        ELSE IF sym_c = 0 \/ sym_c < Ascii["0"] \/ sym_c - Ascii["0"] >= d.n_syms
        THEN IF sym_c = Ascii["-"] /\ dir_c = Ascii["-"] /\ state_c = Ascii["-"]
             THEN IF undef.fault # "none" THEN ParseOut(undef.fault, undef.def, warns)
                  ELSE ParseCells(t, undef.def, i_state, i_sym + 1, warns, hp)
             ELSE ParseOut("error", d, warns)
        ELSE IF dir_c = 0 \/ (dir_c # Ascii["L"] /\ dir_c # Ascii["R"])
        THEN ParseOut("error", d, warns)
        ELSE IF stored.fault # "none" THEN ParseOut(stored.fault, stored.def, warns + warn)
        ELSE ParseCells(t, stored.def, i_state, i_sym + 1, warns + warn, hp)

\* tm_def_parse(txt); mem is what malloc left in the tables
TmDefParse(t, mem, hp) ==
    LET cols == FirstRowWidth(t, 0)
        n_syms == cols \div 3
        n_states == (Len(t) + 1) \div (n_syms * 3 + 1)
        init == TmDefInit(n_syms, n_states, mem)
    IN  IF cols % 3 # 0 THEN ParseOut("error", NoDef, 0)
        ELSE IF init.fault # "none" THEN ParseOut(init.fault, NoDef, 0)
        ELSE ParseCells(t, init.def, 0, 0, 0, hp)

\* printf("%d", n) for 0 <= n
RECURSIVE Decimal(_)
Decimal(n) == IF n < 10 THEN <<Ascii["0"] + n>> ELSE Decimal(n \div 10) \o <<Ascii["0"] + (n % 10)>>

\* the characters f[i], f[i + 1], ..., f[n - 1] one after the other
RECURSIVE CatRange(_, _, _)
CatRange(f, i, n) == IF i >= n THEN <<>> ELSE f[i] \o CatRange(f, i + 1, n)

PrintOut(f, chars) == [fault |-> f, out |-> chars]

\* tm_def_print(def, directed): what it writes to stdout
TmDefPrint(d, directed, hp) ==
    LET head == [i_sym \in 0..(d.n_syms - 1) |->
                     <<Ascii[" "]>> \o Decimal(i_sym + 1) \o <<Ascii[" "], Ascii[" "]>>]
        look == [i_state \in 0..(d.n_states - 1) |-> [i_sym \in 0..(d.n_syms - 1) |->
                     TmDefLookupPacked(d, i_state, i_sym, hp)]]
        cell == [i_state \in 0..(d.n_states - 1) |-> [i_sym \in 0..(d.n_syms - 1) |->
                     Decimal(look[i_state][i_sym].instr.sym)
                     \o <<IF look[i_state][i_sym].instr.dir = DIR_LEFT
                          THEN Ascii["L"] ELSE Ascii["R"]>>
                     \o (IF directed
                         THEN <<Ascii["A"] + (i_state \div 2),
                                IF i_state % 2 = DIR_LEFT THEN Ascii["<"] ELSE Ascii[">"],
                                Ascii[" "]>>
                         ELSE <<Ascii["A"] + i_state, Ascii[" "]>>)]]
        row == [i_state \in 0..(d.n_states - 1) |->
                    <<Ascii["\n"], Ascii["A"] + i_state, Ascii[" "]>>
                    \o CatRange(cell[i_state], 0, d.n_syms)]
        faults == {look[i_state][i_sym].fault :
                       i_state \in 0..(d.n_states - 1), i_sym \in 0..(d.n_syms - 1)}
    IN  IF faults \subseteq {"none"}
        THEN PrintOut("none", <<Ascii[" "]>> \o CatRange(head, 0, d.n_syms)
                              \o CatRange(row, 0, d.n_states) \o <<Ascii["\n"]>>)
        ELSE PrintOut(CHOOSE f \in faults : f # "none", <<>>)

(***************************************************************************)
(* The stepping driver, src/tm_run.c.                                      *)
(***************************************************************************)
\* tm_run_halted with == STATE_UNDEF for >= n_states
TmRunHaltedOnlyUndef(d, r) == r.state = STATE_UNDEF

\* tm_run_halted(run)
TmRunHalted(d, r) == r.state >= d.n_states

Outcome(r, rt, ft, f, ret) == [run |-> r, rle |-> rt, flat |-> ft, fault |-> f, ret |-> ret]

\* tm_run_step that returns on halt before it counts the step
TmRunStepHaltUncounted(d, r, rt, ft) ==
    IF TmRunHalted(d, r)
    THEN Outcome(r, rt, ft, "error", 0)
    ELSE LET in_sym == IF rt # NoTape THEN RleTapeRead(rt) ELSE FlatTapeRead(ft)
         IN  IF ~TmDefLookupInRange(d, r.state, in_sym)
             THEN Outcome(r, rt, ft, "assert", 0)
             ELSE LET instr == TmDefLookup(d, r.state, in_sym)
                      delta == IF instr.dir = DIR_LEFT THEN -1 ELSE 1
                      ft1   == IF ft # NoTape
                               THEN FlatTapeMove(FlatTapeWrite(ft, instr.sym), delta)
                               ELSE ft
                      rt1   == IF rt # NoTape
                               THEN RleTapeMove(RleTapeWrite(rt, instr.sym), delta)
                               ELSE rt
                 IN  IF ft # NoTape /\ ~FlatHeadInside(ft1)
                     THEN Outcome(r, rt, ft1, "assert", 0)
                     ELSE IF instr.state >= d.n_states
                     THEN Outcome([r EXCEPT !.state = instr.state], rt1, ft1, "none", 1)
                     ELSE Outcome([r EXCEPT !.state = instr.state, !.steps = @ + 1],
                                  rt1, ft1, "none", 0)

\* tm_run_step(run): the run, its tapes, the fault and the value returned
TmRunStep(d, r, rt, ft) ==
    IF TmRunHalted(d, r)
    THEN Outcome(r, rt, ft, "error", 0)
    ELSE LET in_sym == IF rt # NoTape THEN RleTapeRead(rt) ELSE FlatTapeRead(ft)
         IN  IF ~TmDefLookupInRange(d, r.state, in_sym)
             THEN Outcome(r, rt, ft, "assert", 0)
             ELSE LET instr == TmDefLookup(d, r.state, in_sym)
                      delta == IF instr.dir = DIR_LEFT THEN -1 ELSE 1
                      ft1   == IF ft # NoTape
                               THEN FlatTapeMove(FlatTapeWrite(ft, instr.sym), delta)
                               ELSE ft
                      rt1   == IF rt # NoTape
                               THEN RleTapeMove(RleTapeWrite(rt, instr.sym), delta)
                               ELSE rt
                      r1    == [r EXCEPT !.state = instr.state, !.steps = @ + 1]
                 IN  IF ft # NoTape /\ ~FlatHeadInside(ft1)
                     THEN Outcome(r, rt, ft1, "assert", 0)
                     ELSE Outcome(r1, rt1, ft1, "none",
                                  IF r1.state >= d.n_states THEN 1 ELSE 0)

\* the step stays inside the explored part of the run
StepInBounds(o) ==
    o.fault = "none" =>
        /\ run.steps < MaxRunSteps
        /\ o.rle # NoTape => o.rle.rel_pos \in Positions
        /\ o.flat # NoTape => o.flat.rel_pos \in Positions

(***************************************************************************)
(* The macro machine, src/mm_utils.c.  A simulation is a run with its flat *)
(* tape; TmRunStep is the tm_run_step of the driver below.                 *)
(***************************************************************************)
\* bit i of the number n
BitOf(n, i) == (n \div (2 ^ i)) % 2

Sim(r, ft) == [run |-> r, flat |-> ft]

\* the set-up of slow_run and of fast_run in mm_determine_instr: tm_run_init
\* on a flat tape of scale + 2 cells, the state, and the cells 1..scale; mem
\* is what malloc left in the two cells that are not written
MmSimInit(scale, mm_in_state, mm_in_sym, mem) ==
    LET mm_in_dir == mm_in_state % 2
        tm_in_state == mm_in_state \div 2
        init_pos == IF mm_in_dir = DIR_LEFT THEN scale ELSE 1
        tape_len == scale + 2
    IN  Sim([steps |-> 0, state |-> tm_in_state],
            FlatTapeInit(tape_len, init_pos,
                         [mem_pos \in 0..(tape_len - 1) |->
                              IF 1 <= mem_pos /\ mem_pos < tape_len - 1
                              THEN BitOf(mm_in_sym, scale - mem_pos) ELSE mem]))

\* the tests on slow_run's rel_pos
SlowRanOffLeft(scale, mm_in_dir, rel_pos) ==
    (mm_in_dir = DIR_LEFT /\ rel_pos <= 0 - scale) \/ (mm_in_dir = DIR_RIGHT /\ rel_pos <= -1)
SlowRanOffRight(scale, mm_in_dir, rel_pos) ==
    (mm_in_dir = DIR_RIGHT /\ rel_pos >= scale) \/ (mm_in_dir = DIR_LEFT /\ rel_pos >= 1)

\* the tests on fast_run's rel_pos
FastRanOffLeft(scale, mm_in_dir, rel_pos) ==
    (mm_in_dir = DIR_LEFT /\ rel_pos <= 0 - scale) \/ (mm_in_dir = DIR_RIGHT /\ rel_pos <= -1)
FastRanOffRight(scale, mm_in_dir, rel_pos) ==
    (mm_in_dir = DIR_RIGHT /\ rel_pos >= 1) \/ (mm_in_dir = DIR_LEFT /\ rel_pos >= scale)

\* how a part of the loop body ends: by goto halted_or_escaped (exit, with
\* mm_out_dir), by a fault of tm_run_step, or by falling through
LoopOut(exit, out_dir, slow, fast, f) ==
    [exit |-> exit, out_dir |-> out_dir, slow |-> slow, fast |-> fast, fault |-> f]

\* the first part of the loop body: the tests on slow_run and its step
MmSlowPart(d, scale, mm_in_dir, slow, fast) ==
    LET o == TmRunStep(d, slow.run, NoTape, slow.flat)
    IN  IF TmRunHalted(d, slow.run) THEN LoopOut(TRUE, DIR_RIGHT, slow, fast, "none")
        ELSE IF SlowRanOffLeft(scale, mm_in_dir, slow.flat.rel_pos)
        THEN LoopOut(TRUE, DIR_LEFT, slow, fast, "none")
        ELSE IF SlowRanOffRight(scale, mm_in_dir, slow.flat.rel_pos)
        THEN LoopOut(TRUE, DIR_RIGHT, slow, fast, "none")
        ELSE LoopOut(FALSE, DIR_RIGHT, Sim(o.run, o.flat), fast, o.fault)

\* one round of the for loop: the tests on fast_run and its step
MmFastPart(d, scale, mm_in_dir, slow, fast) ==
    LET o == TmRunStep(d, fast.run, NoTape, fast.flat)
    IN  IF TmRunHalted(d, fast.run) THEN LoopOut(TRUE, DIR_RIGHT, slow, fast, "none")
        ELSE IF FastRanOffLeft(scale, mm_in_dir, fast.flat.rel_pos)
        THEN LoopOut(TRUE, DIR_LEFT, slow, fast, "none")
        ELSE IF FastRanOffRight(scale, mm_in_dir, fast.flat.rel_pos)
        THEN LoopOut(TRUE, DIR_RIGHT, slow, fast, "none")
        ELSE LoopOut(FALSE, DIR_RIGHT, slow, Sim(o.run, o.flat), o.fault)

\* what follows a part of the loop body: nothing after a goto or a fault,
\* else a round of the for loop
MmThenFast(d, scale, mm_in_dir, o) ==
    IF o.exit \/ o.fault # "none" THEN o
    ELSE MmFastPart(d, scale, mm_in_dir, o.slow, o.fast)

\* one pass through the body of while (1): the slow part, then the two
\* rounds of the for loop, each working on the outcome of the part before
MmLoopBody(d, scale, mm_in_dir, slow, fast) ==
    CHOOSE c \in {MmThenFast(d, scale, mm_in_dir, b) :
                     b \in {MmThenFast(d, scale, mm_in_dir, a) :
                               a \in {MmSlowPart(d, scale, mm_in_dir, slow, fast)}}} : TRUE

\* the symbols of cells 1..scale of the buffer packed into one number, cell 1
\* in the highest bit
RECURSIVE PackCells(_, _, _)
PackCells(syms, scale, i) ==
    IF i >= scale THEN 0 ELSE syms[scale - i] * (2 ^ i) + PackCells(syms, scale, i + 1)

\* a | b for a byte a that is 0 or has every bit set
OrByte(a, b) == IF a = 0 THEN b ELSE a

\* the code after halted_or_escaped; mem is what the automatic variable
\* mm_instr held before mm_instr.sym |= ... is applied to it
MmConstruct(scale, slow, mm_out_dir, mem) ==
    Instr(OrByte(mem, PackCells(slow.flat.syms, scale, 0)) % 256,
          mm_out_dir,
          (slow.run.state * 2 + mm_out_dir) % 256)

(***************************************************************************)
(* Spec: a run created by tm_run_init for any of the programs, with an RLE *)
(* tape, a flat tape or both, stepped by tm_run_step and by tm_run_steps.  *)
(***************************************************************************)
\* tm_run_init(def, use_rle_tape, flat_tape_len, flat_tape_off)
Init ==
    /\ def \in Programs
    /\ bit = NoTape
    /\ build = "wrap"
    /\ heap = "slack"
    /\ txt = <<>>
    /\ out = <<>>
    /\ mm = NoMm
    /\ tape_b = NoTape
    /\ run = [steps |-> 0, state |-> 0]
    /\ \E use_rle_tape \in BOOLEAN : \E flat_tape_len \in 0..MaxInitLen :
           /\ rle = IF use_rle_tape THEN RleTapeInit ELSE NoTape
           /\ IF flat_tape_len <= 0
              THEN flat = NoTape
              ELSE \E flat_tape_off \in 0..(flat_tape_len - 1) :
                       \E mem \in [0..(flat_tape_len - 1) -> Garbage] :
                           flat = FlatTapeInit(flat_tape_len, flat_tape_off, mem)
           /\ fault = IF ~use_rle_tape /\ flat_tape_len <= 0 THEN "error" ELSE "none"
    /\ call = NoCall
    /\ last = [NoLast EXCEPT !.op = "tm_run_init"]
    /\ ref = RefInit

\* what one call of tm_run_step leaves behind
Stepped(o) ==
    /\ run' = o.run
    /\ rle' = (IF o.rle = NoTape THEN o.rle ELSE RleRename(o.rle))
    /\ flat' = o.flat
    /\ fault' = o.fault

\* the client calls tm_run_step
TmRunStepCall ==
    /\ fault = "none"
    /\ call.pc = "idle"
    /\ LET o == TmRunStep(def, run, rle, flat)
       IN  /\ StepInBounds(o)
           /\ Stepped(o)
           /\ last' = [last EXCEPT !.op = "tm_run_step", !.ret = o.ret, !.step_ret = o.ret,
                                   !.len_before = IF flat = NoTape THEN 0 ELSE flat.len,
                                   !.calls = @ + 1,
                                   !.done = IF o.fault = "none" THEN @ + 1 ELSE @]
    /\ UNCHANGED <<tape_b, heap, txt, out, mm, bit, build, def, call, ref>>

\* the client calls tm_run_steps(run, max_steps): int steps = 0
TmRunStepsCall(max_steps) ==
    /\ fault = "none"
    /\ call.pc = "idle"
    /\ call' = [pc |-> "loop", max_steps |-> max_steps, steps |-> 0, taken |-> 0]
    /\ last' = [last EXCEPT !.op = "tm_run_steps"]
    /\ UNCHANGED <<tape_b, heap, txt, out, mm, bit, build, def, run, rle, flat, fault, ref>>

\* one turn of the while loop of tm_run_steps: the local steps is not changed
TmRunStepsLoop ==
    /\ fault = "none"
    /\ call.pc = "loop"
    /\ call.steps < call.max_steps
    /\ LET o == TmRunStep(def, run, rle, flat)
       IN  /\ StepInBounds(o)
           /\ Stepped(o)
           /\ call' = [call EXCEPT !.pc = IF o.fault = "none" /\ o.ret = 1 THEN "idle" ELSE @,
                                   !.taken = IF o.fault = "none" THEN @ + 1 ELSE @]
           /\ last' = [last EXCEPT !.op = IF o.fault = "none" /\ o.ret = 1
                                          THEN "tm_run_steps_return" ELSE "tm_run_step",
                                   !.ret = o.ret, !.step_ret = o.ret,
                                   !.len_before = IF flat = NoTape THEN 0 ELSE flat.len,
                                   !.calls = @ + 1,
                                   !.done = IF o.fault = "none" THEN @ + 1 ELSE @]
    /\ UNCHANGED <<tape_b, heap, txt, out, mm, bit, build, def, ref>>

\* the while condition fails: return 0
TmRunStepsExit ==
    /\ fault = "none"
    /\ call.pc = "loop"
    /\ ~(call.steps < call.max_steps)
    /\ call' = [call EXCEPT !.pc = "idle"]
    /\ last' = [last EXCEPT !.op = "tm_run_steps_return", !.ret = 0]
    /\ UNCHANGED <<tape_b, heap, txt, out, mm, bit, build, def, run, rle, flat, fault, ref>>

TmRunStepsAny == \E max_steps \in 0..MaxBudget : TmRunStepsCall(max_steps)

Next == TmRunStepCall \/ TmRunStepsAny \/ TmRunStepsLoop \/ TmRunStepsExit

Spec == Init /\ [][Next]_vars

(***************************************************************************)
(* SpecRle: an RLE tape under any sequence of writes and moves.            *)
(***************************************************************************)
InitRle ==
    /\ def = NoDef
    /\ bit = NoTape
    /\ build = "wrap"
    /\ heap = "slack"
    /\ txt = <<>>
    /\ out = <<>>
    /\ mm = NoMm
    /\ tape_b = NoTape
    /\ run = NoRun
    /\ rle = RleTapeInit
    /\ flat = NoTape
    /\ call = NoCall
    /\ fault = "none"
    /\ last = NoLast
    /\ ref = RefInit

RleWriteOp(sym) ==
    /\ fault = "none"
    /\ rle' = RleRename(RleTapeWrite(rle, sym))
    /\ ref' = RefWrite(ref, sym)
    /\ last' = [last EXCEPT !.op = "rle_tape_write"]
    /\ UNCHANGED <<tape_b, heap, txt, out, mm, bit, build, def, run, flat, call, fault>>

RleMoveOp(delta) ==
    /\ fault = "none"
    /\ rle.rel_pos + delta \in Positions
    /\ rle' = RleRename(RleTapeMove(rle, delta))
    /\ ref' = RefMove(ref, delta)
    /\ last' = [last EXCEPT !.op = "rle_tape_move"]
    /\ UNCHANGED <<tape_b, heap, txt, out, mm, bit, build, def, run, flat, call, fault>>

RleWriteAny == \E sym \in Syms : RleWriteOp(sym)
RleMoveAny == \E delta \in {-1, 1} : RleMoveOp(delta)

NextRle == RleWriteAny \/ RleMoveAny

SpecRle == InitRle /\ [][NextRle]_vars

(***************************************************************************)
(* SpecFree: an RLE tape under any sequence of writes and moves, ended by  *)
(* rle_tape_free.  `out` holds the addresses passed to free, in order.     *)
(***************************************************************************)
RECURSIVE FreeEach(_, _, _)
\* the second loop of rle_tape_free: next is read, then elem is freed
FreeEach(h, e, fuel) ==
    IF e = NULL \/ fuel = 0 THEN [elems |-> h, freed |-> <<>>]
    ELSE LET r == FreeEach(Free(h, e), h[e].right, fuel - 1)
         IN  [elems |-> r.elems, freed |-> <<e>> \o r.freed]

\* rle_tape_free(tape): ub tells that a cell was read or freed that was not
\* malloc'ed any more
RleTapeFree(t) ==
    LET o == FreeEach(t.elems, WalkLeft(t.elems, t.curr, MaxElems), MaxElems + 1)
    IN  [elems |-> o.elems, freed |-> o.freed,
         ub |-> \/ \E i \in 1..Len(o.freed) : ~t.elems[o.freed[i]].live
                \/ \E i, j \in 1..Len(o.freed) : i # j /\ o.freed[i] = o.freed[j]]

\* rle_tape_write on a tape not yet freed
FreeWriteAny == call.pc = "idle" /\ RleWriteAny

\* rle_tape_move on a tape not yet freed
FreeMoveAny == call.pc = "idle" /\ RleMoveAny

RleTapeFreeOp ==
    /\ fault = "none"
    /\ call.pc = "idle"
    /\ \E o \in {RleTapeFree(rle)} :
           /\ rle' = [rle EXCEPT !.elems = o.elems]
           /\ out' = o.freed
           /\ fault' \in IF o.ub THEN {"none", "trap"} ELSE {"none"}
           /\ last' = [last EXCEPT !.op = "rle_tape_free", !.calls = Len(o.freed)]
    /\ call' = [call EXCEPT !.pc = "freed"]
    /\ UNCHANGED <<tape_b, heap, txt, mm, bit, build, def, run, flat, ref>>

NextFree == FreeWriteAny \/ FreeMoveAny \/ RleTapeFreeOp

SpecFree == InitRle /\ [][NextFree]_vars

(***************************************************************************)
(* SpecFlat: a flat tape of any initial size under any sequence of writes, *)
(* reads and moves.                                                        *)
(***************************************************************************)
InitFlat ==
    /\ def = NoDef
    /\ bit = NoTape
    /\ build = "wrap"
    /\ heap = "slack"
    /\ txt = <<>>
    /\ out = <<>>
    /\ mm = NoMm
    /\ tape_b = NoTape
    /\ run = NoRun
    /\ rle = NoTape
    /\ \E len \in 1..MaxInitLen : \E init_pos \in 0..(len - 1) :
           \E mem \in [0..(len - 1) -> Garbage] :
               flat = FlatTapeInit(len, init_pos, mem)
    /\ call = NoCall
    /\ fault = "none"
    /\ last = [NoLast EXCEPT !.op = "flat_tape_init"]
    /\ ref = RefInit

FlatWriteOp(sym) ==
    /\ fault = "none"
    /\ flat' = FlatTapeWrite(flat, sym)
    /\ ref' = RefWrite(ref, sym)
    /\ last' = [last EXCEPT !.op = "flat_tape_write", !.len_before = flat.len]
    /\ UNCHANGED <<tape_b, heap, txt, out, mm, bit, build, def, run, rle, call, fault>>

FlatReadOp ==
    /\ fault = "none"
    /\ last' = [last EXCEPT !.op = "flat_tape_read", !.ret = FlatTapeRead(flat),
                            !.len_before = flat.len]
    /\ UNCHANGED <<tape_b, heap, txt, out, mm, bit, build, def, run, rle, flat, call, fault, ref>>

FlatMoveOp(delta) ==
    /\ fault = "none"
    /\ flat.rel_pos + delta \in Positions
    /\ flat' = FlatTapeMove(flat, delta)
    /\ fault' = IF FlatHeadInside(flat') THEN "none" ELSE "assert"
    /\ ref' = RefMove(ref, delta)
    /\ last' = [last EXCEPT !.op = "flat_tape_move", !.len_before = flat.len]
    /\ UNCHANGED <<tape_b, heap, txt, out, mm, bit, build, def, run, rle, call>>

FlatWriteAny == \E sym \in Syms : FlatWriteOp(sym)
FlatMoveAny == \E delta \in {-1, 1} : FlatMoveOp(delta)

NextFlat == FlatWriteAny \/ FlatReadOp \/ FlatMoveAny

SpecFlat == InitFlat /\ [][NextFlat]_vars

(***************************************************************************)
(* SpecBit: a bit tape of any of the widths and capacities, on any of the  *)
(* builds, under any sequence of writes, reads and moves.  The reference   *)
(* holds, for each cell of the buffer, the value last written to it.       *)
(***************************************************************************)
\* the buffer has 1..MaxBitSyms symbols
MaxBitSyms == 2

\* the widths: inside one block (1, 8, 9), ending on the boundary of a block
\* (32 at cell 1, 64 at every cell), straddling two blocks (60 and 63 at
\* cell 1)
BitWidths == {1, 8, 9, 32, 60, 63, BLOCK_BITS}

\* the values a client writes to cells of sym_bits bits: below 2^sym_bits
BitValues(sym_bits) == {v \in {0, 1, 255, 256} : sym_bits > 30 \/ v < 2 ^ sym_bits}

\* the value a sym_t parameter receives from the argument v
SymTArg(v) == v % (2 ^ MAX_SYM_BITS)

BitRefInit(n_syms, init_pos) == [cells |-> [i \in 0..(n_syms - 1) |-> 0], pos |-> init_pos]

InitBit ==
    /\ def = NoDef
    /\ run = NoRun
    /\ rle = NoTape
    /\ flat = NoTape
    /\ build \in Builds
    /\ heap = "slack"
    /\ txt = <<>>
    /\ out = <<>>
    /\ mm = NoMm
    /\ tape_b = NoTape
    /\ \E sym_bits \in BitWidths : \E n_syms \in 1..MaxBitSyms :
           \E init_pos \in 0..(n_syms - 1) :
               /\ bit = BitTapeInit(sym_bits, n_syms, init_pos)
               /\ ref = BitRefInit(n_syms, init_pos)
    /\ call = NoCall
    /\ fault = "none"
    /\ last = [NoLast EXCEPT !.op = "bit_tape_init"]

BitWriteOp(v) ==
    /\ fault = "none"
    /\ LET o == BitTapeWrite(bit, SymTArg(v), build)
       IN  /\ bit' = o.tape
           /\ fault' = o.fault
    /\ ref' = RefWrite(ref, v)
    /\ last' = [last EXCEPT !.op = "bit_tape_write"]
    /\ UNCHANGED <<tape_b, heap, txt, out, mm, build, def, run, rle, flat, call>>

BitReadOp ==
    /\ fault = "none"
    /\ LET o == BitTapeRead(bit, build)
       IN  /\ fault' = o.fault
           /\ last' = [last EXCEPT !.op = "bit_tape_read", !.ret = o.sym]
    /\ UNCHANGED <<tape_b, heap, txt, out, mm, bit, build, def, run, rle, flat, call, ref>>

BitMoveOp(delta) ==
    /\ fault = "none"
    /\ LET o == BitTapeMove(bit, delta)
       IN  /\ bit' = o.tape
           /\ fault' = o.fault
    /\ ref' = RefMove(ref, delta)
    /\ last' = [last EXCEPT !.op = "bit_tape_move"]
    /\ UNCHANGED <<tape_b, heap, txt, out, mm, build, def, run, rle, flat, call>>

BitWriteAny == \E v \in BitValues(bit.sym_bits) : BitWriteOp(v)
BitMoveAny == \E delta \in {-1, 1} : BitMoveOp(delta)

NextBit == BitWriteAny \/ BitReadOp \/ BitMoveAny

SpecBit == InitBit /\ [][NextBit]_vars

(***************************************************************************)
(* SpecParse: tm_def_parse on a program text, then tm_def_print of the     *)
(* table.  The texts are well-formed programs and what one changed,        *)
(* dropped or added character makes of them.                               *)
(***************************************************************************)
\* the cell "abc" of a program text
Cell(a, b, c) == <<Ascii[a], Ascii[b], Ascii[c]>>

\* rows joined by '_'
RECURSIVE JoinRows(_)
JoinRows(rows) ==
    IF Len(rows) = 0 THEN <<>>
    ELSE IF Len(rows) = 1 THEN rows[1]
    ELSE rows[1] \o <<Ascii["_"]>> \o JoinRows(Tail(rows))

\* 1RB1LB_1LA1RZ
Text2x2 == JoinRows(<<Cell("1", "R", "B") \o Cell("1", "L", "B"),
                      Cell("1", "L", "A") \o Cell("1", "R", "Z")>>)
\* 0RA
Text1x1 == Cell("0", "R", "A")
\* 1RB---_1LA0RH
TextUndef == JoinRows(<<Cell("1", "R", "B") \o Cell("-", "-", "-"),
                        Cell("1", "L", "A") \o Cell("0", "R", "H")>>)
\* 1RB2LB1RZ_2LA2RB1LB
Text2x3 == JoinRows(<<Cell("1", "R", "B") \o Cell("2", "L", "B") \o Cell("1", "R", "Z"),
                      Cell("2", "L", "A") \o Cell("2", "R", "B") \o Cell("1", "L", "B")>>)
\* one row of eleven symbols: 0RA ten times, then 9LA
Text1x11 == CatRange([i \in 0..9 |-> Cell("0", "R", "A")], 0, 10) \o Cell("9", "L", "A")

\* the letters of the text format name the states A..Z
MaxStates == STATE_UNDEF + 1

\* n rows of one symbol: 0RA in every row but the last, which holds cell
TextTall(n, cell) == JoinRows([q \in 1..n |-> IF q < n THEN Cell("0", "R", "A") ELSE cell])

TallTexts == {TextTall(n, cell) : n \in 1..MaxStates,
                  cell \in {Cell("-", "-", "-"), Cell("0", "R", "H"), Cell("0", "R", "Z")}}

\* the characters a text is changed with
MutChars == {Ascii[c] : c \in {"0", "1", "2", ":", "-", "L", "R", "A", "x", "_"}}

\* t with one character replaced, dropped or added at the end, and the empty text
Mutations(t) ==
    {[t EXCEPT ![p] = c] : p \in 1..Len(t), c \in MutChars}
    \cup {SubSeq(t, 1, p - 1) \o SubSeq(t, p + 1, Len(t)) : p \in 1..Len(t)}
    \cup {t \o <<c>> : c \in MutChars}
    \cup {SubSeq(t, 1, p) : p \in 0..Len(t)}

ParseTexts ==
    {Text2x2, Text1x1, TextUndef, Text2x3, Text1x11} \cup TallTexts
    \cup Mutations(Text2x2) \cup Mutations(Text1x1) \cup Mutations(TextUndef)
    \cup Mutations(Text1x11)

InitParse ==
    /\ def = NoDef
    /\ run = NoRun
    /\ rle = NoTape
    /\ flat = NoTape
    /\ bit = NoTape
    /\ build = "wrap"
    /\ heap \in Heaps
    /\ txt \in ParseTexts
    /\ out = <<>>
    /\ mm = NoMm
    /\ tape_b = NoTape
    /\ call = NoCall
    /\ fault = "none"
    /\ last = NoLast
    /\ ref = RefInit

\* the client calls tm_def_parse(txt)
TmDefParseCall ==
    /\ fault = "none"
    /\ last.op = "init"
    /\ \E mem \in TabGarbage :
           LET o == TmDefParse(txt, mem, heap)
           IN  /\ def' = (IF o.fault = "none" THEN o.def ELSE NoDef)
               /\ fault' = o.fault
               /\ last' = [last EXCEPT !.op = "tm_def_parse", !.ret = o.warns]
    /\ UNCHANGED <<tape_b, heap, txt, out, mm, run, rle, flat, bit, build, call, ref>>

\* the client calls tm_def_print(def, directed)
TmDefPrintCall(directed) ==
    /\ fault = "none"
    /\ last.op = "tm_def_parse"
    /\ LET o == TmDefPrint(def, directed, heap)
       IN  /\ out' = o.out
           /\ fault' = o.fault
    /\ last' = [last EXCEPT !.op = "tm_def_print", !.ret = IF directed THEN 1 ELSE 0]
    /\ UNCHANGED <<tape_b, heap, txt, mm, def, run, rle, flat, bit, build, call, ref>>

TmDefPrintAny == \E directed \in BOOLEAN : TmDefPrintCall(directed)

NextParse == TmDefParseCall \/ TmDefPrintAny

SpecParse == InitParse /\ [][NextParse]_vars

(***************************************************************************)
(* Tape comparison, src/tape_utils.c.                                      *)
(***************************************************************************)
\* INT_MIN and INT_MAX of a 32-bit int
TAPES_EQUAL == 0 - 2147483647 - 1
TAPES_DIFF_HEAD == 2147483647

CmpOut(f, ret) == [fault |-> f, ret |-> ret]

RECURSIVE LeftOf(_, _, _)
\* the addresses met from e on by following left pointers
LeftOf(h, e, fuel) ==
    IF e = NULL \/ fuel = 0 THEN <<>> ELSE <<e>> \o LeftOf(h, h[e].left, fuel - 1)

\* sym in each of n cells; no cell for n <= 0
SymRun(sym, n) == [i \in 1..n |-> sym]

RECURSIVE SymsOf(_, _)
\* the symbols the loops over the segments c expect, cell by cell
SymsOf(h, c) ==
    IF c = <<>> THEN <<>> ELSE SymRun(h[Head(c)].sym, h[Head(c)].len) \o SymsOf(h, Tail(c))

\* how a scan over the expected symbols ends: "pass" when all were found,
\* "fail" at mem_pos (goto fail), or "assert"
ScanOut(kind, mem_pos) == [kind |-> kind, mem_pos |-> mem_pos]

RECURSIVE ScanFlat(_, _, _, _)
\* the loops of tm_mixed_tape_cmp in one direction (step -1 or 1): each
\* round asserts mem_pos inside the buffer on that side, then compares
ScanFlat(ft, expect, mem_pos, step) ==
    IF expect = <<>> THEN ScanOut("pass", mem_pos)
    ELSE IF (step < 0 /\ ~(mem_pos >= 0)) \/ (step > 0 /\ ~(mem_pos < ft.len))
    THEN ScanOut("assert", mem_pos)
    ELSE IF ft.syms[mem_pos] # Head(expect) THEN ScanOut("fail", mem_pos)
    ELSE ScanFlat(ft, Tail(expect), mem_pos + step, step)

\* tm_mixed_tape_cmp(rle_tape, flat_tape)
TmMixedTapeCmp(rt, ft) ==
    LET h == rt.elems
        head_pos == ft.rel_pos + ft.init_pos
        left == ScanFlat(ft, SymRun(h[rt.curr].sym, rt.rle_pos + 1)
                                 \o SymsOf(h, LeftOf(h, h[rt.curr].left, MaxElems)),
                         head_pos, -1)
        right == ScanFlat(ft, SymRun(h[rt.curr].sym, h[rt.curr].len - (rt.rle_pos + 1))
                                  \o SymsOf(h, WalkRight(h, h[rt.curr].right, MaxElems)),
                          head_pos + 1, 1)
    IN  IF rt.rel_pos # ft.rel_pos THEN CmpOut("none", TAPES_DIFF_HEAD)
        ELSE IF left.kind = "assert" THEN CmpOut("assert", 0)
        ELSE IF left.kind = "fail" THEN CmpOut("none", left.mem_pos - ft.init_pos)
        ELSE IF right.kind = "assert" THEN CmpOut("assert", 0)
        ELSE IF right.kind = "fail" THEN CmpOut("none", right.mem_pos - ft.init_pos)
        ELSE CmpOut("none", TAPES_EQUAL)

\* tm_flat_tape_cmp(tape_a, tape_b): ERROR("Not implemented!") opens the
\* function, so nothing below it is ever run
TmFlatTapeCmp(ta, tb) == CmpOut("error", 0)

\* tm_rle_tape_cmp(tape_a, tape_b): the loop breaks in its first round
TmRleTapeCmp(ta, tb) == CmpOut("none", TAPES_EQUAL)

(***************************************************************************)
(* SpecCmp: an RLE tape and a flat tape, written and moved together or one *)
(* at a time, and compared by the functions of src/tape_utils.c.           *)
(***************************************************************************)
\* the tapes are given MaxCmpOps writes and moves
MaxCmpOps == 3

InitCmp ==
    /\ def = NoDef
    /\ bit = NoTape
    /\ build = "wrap"
    /\ heap = "slack"
    /\ txt = <<>>
    /\ out = <<>>
    /\ mm = NoMm
    /\ tape_b = NoTape
    /\ run = NoRun
    /\ rle = RleTapeInit
    /\ \E len \in 1..MaxInitLen : \E init_pos \in 0..(len - 1) :
           \E mem \in [0..(len - 1) -> Garbage] :
               flat = FlatTapeInit(len, init_pos, mem)
    /\ call = NoCall
    /\ fault = "none"
    /\ last = NoLast
    /\ ref = RefInit

\* one more write or move, none after a comparison
CmpOp(op) ==
    /\ fault = "none"
    /\ last.calls < MaxCmpOps
    /\ last.op \in {"init", "write", "move"}
    /\ last' = [last EXCEPT !.op = op, !.calls = @ + 1]

\* rle_tape_write and flat_tape_write of the same symbol
CmpWriteBoth(sym) ==
    /\ CmpOp("write")
    /\ rle' = RleRename(RleTapeWrite(rle, sym))
    /\ flat' = FlatTapeWrite(flat, sym)
    /\ UNCHANGED <<tape_b, heap, txt, out, mm, bit, build, def, run, call, fault, ref>>

\* rle_tape_move and flat_tape_move by the same delta
CmpMoveBoth(delta) ==
    /\ CmpOp("move")
    /\ rle.rel_pos + delta \in Positions
    /\ flat.rel_pos + delta \in Positions
    /\ rle' = RleRename(RleTapeMove(rle, delta))
    /\ flat' = FlatTapeMove(flat, delta)
    /\ fault' = IF FlatHeadInside(flat') THEN "none" ELSE "assert"
    /\ UNCHANGED <<tape_b, heap, txt, out, mm, bit, build, def, run, call, ref>>

\* rle_tape_write alone
CmpWriteRle(sym) ==
    /\ CmpOp("write")
    /\ rle' = RleRename(RleTapeWrite(rle, sym))
    /\ UNCHANGED <<tape_b, heap, txt, out, mm, bit, build, def, run, flat, call, fault, ref>>

\* flat_tape_write alone
CmpWriteFlat(sym) ==
    /\ CmpOp("write")
    /\ flat' = FlatTapeWrite(flat, sym)
    /\ UNCHANGED <<tape_b, heap, txt, out, mm, bit, build, def, run, rle, call, fault, ref>>

\* rle_tape_move alone
CmpMoveRle(delta) ==
    /\ CmpOp("move")
    /\ rle.rel_pos + delta \in Positions
    /\ rle' = RleRename(RleTapeMove(rle, delta))
    /\ UNCHANGED <<tape_b, heap, txt, out, mm, bit, build, def, run, flat, call, fault, ref>>

\* flat_tape_move alone
CmpMoveFlat(delta) ==
    /\ CmpOp("move")
    /\ flat.rel_pos + delta \in Positions
    /\ flat' = FlatTapeMove(flat, delta)
    /\ fault' = IF FlatHeadInside(flat') THEN "none" ELSE "assert"
    /\ UNCHANGED <<tape_b, heap, txt, out, mm, bit, build, def, run, rle, call, ref>>

\* the client calls tm_mixed_tape_cmp(rle, flat)
TmMixedTapeCmpCall ==
    /\ fault = "none"
    /\ last.op \in {"init", "write", "move"}
    /\ \E o \in {TmMixedTapeCmp(rle, flat)} :
           /\ fault' = o.fault
           /\ last' = [last EXCEPT !.op = "tm_mixed_tape_cmp", !.ret = o.ret]
    /\ UNCHANGED <<tape_b, heap, txt, out, mm, bit, build, def, run, rle, flat, call, ref>>

\* the client calls tm_rle_tape_cmp(rle, tape_b), tape_b being the tape
\* itself or the tape after one more write or move
TmRleTapeCmpCall ==
    /\ fault = "none"
    /\ last.op \in {"init", "write", "move"}
    /\ \E b \in {rle} \cup {RleRename(RleTapeWrite(rle, sym)) : sym \in Syms}
                      \cup {RleRename(RleTapeMove(rle, delta)) : delta \in {-1, 1}} :
       \E o \in {TmRleTapeCmp(rle, b)} :
           /\ tape_b' = b
           /\ fault' = o.fault
           /\ last' = [last EXCEPT !.op = "tm_rle_tape_cmp", !.ret = o.ret]
    /\ UNCHANGED <<heap, txt, out, mm, bit, build, def, run, rle, flat, call, ref>>

\* the client calls tm_flat_tape_cmp(flat, tape_b), tape_b being the tape
\* itself or the tape after one more write
TmFlatTapeCmpCall ==
    /\ fault = "none"
    /\ last.op \in {"init", "write", "move"}
    /\ \E b \in {flat} \cup {FlatTapeWrite(flat, sym) : sym \in Syms} :
       \E o \in {TmFlatTapeCmp(flat, b)} :
           /\ tape_b' = b
           /\ fault' = o.fault
           /\ last' = [last EXCEPT !.op = "tm_flat_tape_cmp", !.ret = o.ret]
    /\ UNCHANGED <<heap, txt, out, mm, bit, build, def, run, rle, flat, call, ref>>

CmpWriteAny == \E sym \in Syms : CmpWriteBoth(sym) \/ CmpWriteRle(sym) \/ CmpWriteFlat(sym)
CmpMoveAny == \E delta \in {-1, 1} : CmpMoveBoth(delta) \/ CmpMoveRle(delta) \/ CmpMoveFlat(delta)

NextCmp == CmpWriteAny \/ CmpMoveAny \/ TmMixedTapeCmpCall \/ TmRleTapeCmpCall \/ TmFlatTapeCmpCall

SpecCmp == InitCmp /\ [][NextCmp]_vars

(***************************************************************************)
(* The counts of non-zero cells, src/tape_rle.c and src/tape_flat.c.       *)
(***************************************************************************)
RECURSIVE CountLeft(_, _, _)
\* the first while loop of rle_count_nonzero: elem and the segments to its left
CountLeft(h, e, fuel) ==
    IF e = NULL \/ fuel = 0 THEN 0
    ELSE (IF h[e].sym # 0 THEN h[e].len ELSE 0) + CountLeft(h, h[e].left, fuel - 1)

RECURSIVE CountRight(_, _, _)
\* the second while loop of rle_count_nonzero: elem and the segments to its right
CountRight(h, e, fuel) ==
    IF e = NULL \/ fuel = 0 THEN 0
    ELSE (IF h[e].sym # 0 THEN h[e].len ELSE 0) + CountRight(h, h[e].right, fuel - 1)

\* rle_count_nonzero(tape)
RleCountNonzero(t) ==
    CountLeft(t.elems, t.curr, MaxElems)
    + CountRight(t.elems, t.elems[t.curr].right, MaxElems)

RECURSIVE FlatCountFrom(_, _)
\* the for loop of flat_tape_count_nonzero from index i on
FlatCountFrom(t, i) ==
    IF i >= t.len THEN 0
    ELSE (IF t.syms[i] # 0 THEN 1 ELSE 0) + FlatCountFrom(t, i + 1)

\* flat_tape_count_nonzero(tape)
FlatTapeCountNonzero(t) == FlatCountFrom(t, 0)

(***************************************************************************)
(* SpecTest: the end-to-end runs of src/test.c.  A test program is run     *)
(* from tm_run_init by the loop of tm_run_steps until it halts, on an RLE  *)
(* tape, on a flat tape, or on both.                                       *)
(***************************************************************************)
MaxTestSteps == 40

\* the tables of the programs of the end-to-end runs
TestPrograms == {
    \* 1RB2LB1RZ_2LA2RB1LB
    Def(3, 2, <<Instr(1, DIR_RIGHT, 1), Instr(2, DIR_LEFT, 1), Instr(1, DIR_RIGHT, STATE_UNDEF),
                Instr(2, DIR_LEFT, 0), Instr(2, DIR_RIGHT, 1), Instr(1, DIR_LEFT, 1)>>),
    \* 1RB1RZ_1LB0RC_1LC1LA
    Def(2, 3, <<Instr(1, DIR_RIGHT, 1), Instr(1, DIR_RIGHT, STATE_UNDEF),
                Instr(1, DIR_LEFT, 1), Instr(0, DIR_RIGHT, 2),
                Instr(1, DIR_LEFT, 2), Instr(1, DIR_LEFT, 0)>>),
    \* 1RB1RZ_0RC---_1LC0LA: "---" is stored as (0, DIR_LEFT, STATE_UNDEF)
    Def(2, 3, <<Instr(1, DIR_RIGHT, 1), Instr(1, DIR_RIGHT, STATE_UNDEF),
                Instr(0, DIR_RIGHT, 2), Instr(0, DIR_LEFT, STATE_UNDEF),
                Instr(1, DIR_LEFT, 2), Instr(0, DIR_LEFT, 0)>>) }

\* tm_run_init(def, use_rle_tape, flat_tape_len, flat_tape_off) with at least
\* one tape
InitTest ==
    /\ def \in TestPrograms
    /\ bit = NoTape
    /\ build = "wrap"
    /\ heap = "slack"
    /\ txt = <<>>
    /\ out = <<>>
    /\ mm = NoMm
    /\ tape_b = NoTape
    /\ run = [steps |-> 0, state |-> 0]
    /\ \E use_rle_tape \in BOOLEAN : \E flat_tape_len \in 0..MaxInitLen :
           /\ use_rle_tape \/ flat_tape_len > 0
           /\ rle = IF use_rle_tape THEN RleTapeInit ELSE NoTape
           /\ IF flat_tape_len <= 0
              THEN flat = NoTape
              ELSE \E flat_tape_off \in 0..(flat_tape_len - 1) :
                       \E mem \in [0..(flat_tape_len - 1) -> Garbage] :
                           flat = FlatTapeInit(flat_tape_len, flat_tape_off, mem)
    /\ fault = "none"
    /\ call = [NoCall EXCEPT !.pc = "loop"]
    /\ last = [NoLast EXCEPT !.op = "tm_run_init"]
    /\ ref = RefInit

\* one turn of the while loop of tm_run_steps: tm_run_step, and the loop is
\* left when it returns 1
TestStep ==
    /\ fault = "none"
    /\ call.pc = "loop"
    /\ run.steps < MaxTestSteps
    /\ \E o \in {TmRunStep(def, run, rle, flat)} :
           /\ Stepped(o)
           /\ call' = [call EXCEPT !.pc = IF o.fault = "none" /\ o.ret = 1 THEN "idle" ELSE @,
                                   !.taken = IF o.fault = "none" THEN @ + 1 ELSE @]
           /\ last' = [last EXCEPT !.op = "tm_run_step", !.ret = o.ret, !.step_ret = o.ret]
    /\ UNCHANGED <<tape_b, heap, txt, out, mm, bit, build, def, ref>>

NextTest == TestStep

SpecTest == InitTest /\ [][NextTest]_vars

(***************************************************************************)
(* The bit array machine: src/bitarray/tape.c, src/table.c with            *)
(* src/bitarray/table.h, src/bitarray/machine.c.  A unit_t is an unsigned  *)
(* long, held as a bit_block_t is.                                         *)
(***************************************************************************)
\* src/bitarray/table.h
TABLE_DIR_RIGHT == 0
TABLE_DIR_LEFT == 1

RECURSIVE CeilLog2From(_, _)
\* the while loop of ceil_log2
CeilLog2From(n, shift) == IF n \div (2 ^ shift) > 0 THEN CeilLog2From(n, shift + 1) ELSE shift

\* ceil_log2(n): the number of bits of n
CeilLog2(n) == CeilLog2From(n, 0)

\* n_units(n_syms, sym_bits)
NUnits(n_syms, sym_bits) == (n_syms * sym_bits + BLOCK_BITS - 1) \div BLOCK_BITS

\* tape_init(n_syms, sym_bits): the units come from calloc
TapeInit(n_syms, sym_bits) ==
    [n_syms |-> n_syms, sym_bits |-> sym_bits,
     units |-> [u \in 0..(NUnits(n_syms, sym_bits) - 1) |-> {}]]

\* the words that may lie behind the block calloc returned
PastWords == {{}, AllBits}

\* units[u]; past is the word found where u is behind the block
UnitAt(t, u, past) == IF u \in DOMAIN t.units THEN t.units[u] ELSE past

\* the result of tape_read: the exit taken and the unit_t returned
UnitRet(f, unit) == [fault |-> f, unit |-> unit]

\* tape_read(tape, sym_idx); an index below 0 stands for the unsigned value
\* it wraps to
TapeRead(t, sym_idx, bld, hp, past) ==
    LET bit_from == sym_idx * t.sym_bits
        bit_to == (sym_idx + 1) * t.sym_bits
        unit_from == bit_from \div BLOCK_BITS
        unit_to == bit_to \div BLOCK_BITS
        shift_low == bit_from % BLOCK_BITS
        shift_high == bit_to % BLOCK_BITS
        mask == Bitmask(shift_low, shift_high, bld)
        low_mask == Bitmask(shift_low, BLOCK_BITS, bld)
        low_unit == Shr(UnitAt(t, unit_from, past) \cap low_mask, shift_low, bld)
        high_mask == Bitmask(0, shift_high, bld)
        high_unit == Shl(UnitAt(t, unit_to, past) \cap high_mask, t.sym_bits - shift_high, bld)
    IN  IF ~(0 <= sym_idx /\ sym_idx < t.n_syms) THEN UnitRet("assert", {})
        ELSE IF unit_from = unit_to
        THEN UnitRet("none", Shr(t.units[unit_from] \cap mask, shift_low, bld))
        ELSE IF unit_to \notin DOMAIN t.units /\ hp = "trap" THEN UnitRet("trap", {})
        ELSE IF low_unit \cap high_unit # {} THEN UnitRet("assert", {})
        ELSE UnitRet("none", low_unit \cup high_unit)

\* the result of tape_write: the exit taken and the tape
TapeOut(f, t) == [fault |-> f, tape |-> t]

\* tape_write(tape, sym_idx, sym), sym a unit_t
TapeWrite(t, sym_idx, sym, bld, hp, past) ==
    LET bit_from == sym_idx * t.sym_bits
        bit_to == (sym_idx + 1) * t.sym_bits
        unit_from == bit_from \div BLOCK_BITS
        unit_to == bit_to \div BLOCK_BITS
        shift_low == bit_from % BLOCK_BITS
        shift_high == bit_to % BLOCK_BITS
        mask == Bitmask(shift_low, shift_high, bld)
        sym_mask == Bitmask(0, BLOCK_BITS - shift_low, bld)
        low_mask == Bitmask(shift_low, BLOCK_BITS, bld)
        high_mask == Bitmask(0, shift_high, bld)
        from_unit == (UnitAt(t, unit_from, past) \ low_mask)
                         \cup Shl(sym \cap sym_mask, shift_low, bld)
        to_unit == (UnitAt(t, unit_to, past) \ high_mask)
                       \cup Shr(sym \ sym_mask, t.sym_bits - shift_high, bld)
    IN  IF ~(0 <= sym_idx /\ sym_idx < t.n_syms) THEN TapeOut("assert", t)
        ELSE IF sym \ Bitmask(0, t.sym_bits, bld) # {} THEN TapeOut("assert", t)
        ELSE IF unit_from = unit_to
        THEN TapeOut("none", [t EXCEPT !.units[unit_from] =
                                  (@ \ mask) \cup Shl(sym, shift_low, bld)])
        ELSE IF unit_to \notin DOMAIN t.units
        THEN IF hp = "trap" THEN TapeOut("trap", t)
             ELSE TapeOut("none", [t EXCEPT !.units[unit_from] = from_unit])
        ELSE TapeOut("none", [t EXCEPT !.units =
                                  [@ EXCEPT ![unit_from] = from_unit, ![unit_to] = to_unit]])

\* struct action_t
Action(o_state, o_sym, o_dir) == [o_state |-> o_state, o_sym |-> o_sym, o_dir |-> o_dir]

NoTable == [n_syms |-> 0, n_states |-> 0, tape |-> NoTape]

\* the result of table_store and of table_parse: the exit taken and the table
TableOut(f, tab) == [fault |-> f, table |-> tab]

\* table_store(table, i_state, i_sym, action)
TableStore(tab, i_state, i_sym, action, bld, hp, past) ==
    LET action_bits == Shl(ToBlock(action.o_state), CeilLog2(tab.n_syms) + 1, bld)
                           \cup Shl(ToBlock(action.o_sym), 1, bld)
                           \cup ToBlock(action.o_dir)
        idx == i_state * tab.n_syms + i_sym
        w   == TapeWrite(tab.tape, idx, action_bits, bld, hp, past)
    IN  TableOut(w.fault, [tab EXCEPT !.tape = w.tape])

\* the result of table_lookup: the exit taken and the action
ActionRet(f, action) == [fault |-> f, action |-> action]

\* table_lookup(table, i_state, i_sym)
TableLookup(tab, i_state, i_sym, bld, hp, past) ==
    LET idx == i_state * tab.n_syms + i_sym
        r == TapeRead(tab.tape, idx, bld, hp, past)
        sym_bits == CeilLog2(tab.n_syms)
        state_bits == CeilLog2(tab.n_states + 1)
        sym_mask == Bitmask(1, sym_bits + 1, bld)
        state_mask == Bitmask(sym_bits + 1, sym_bits + state_bits + 1, bld)
    IN  IF r.fault # "none" THEN ActionRet(r.fault, Action(0, 0, 0))
        ELSE ActionRet("none",
                 Action(BlockValue(Shr(r.unit \cap state_mask, sym_bits + 1, bld)),
                        BlockValue(Shr(r.unit \cap sym_mask, 1, bld)),
                        BlockValue(r.unit \cap {0})))

\* the two loops of table_parse from cell (i_state, i_sym) on
RECURSIVE TableParseCells(_, _, _, _, _, _, _)
TableParseCells(t, tab, i_state, i_sym, bld, hp, past) ==
    LET stride == tab.n_syms * 3 + 1
        txt_idx == i_state * stride + i_sym * 3
        sym_c == CharAt(t, txt_idx)
        dir_c == CharAt(t, txt_idx + 1)
        state_c == CharAt(t, txt_idx + 2)
        term == CharAt(t, i_state * stride + tab.n_syms * 3)
        state_halt == BlockValue(Bitmask(0, CeilLog2(tab.n_states + 1), bld))
        undef == TableStore(tab, i_state, i_sym, Action(state_halt, 0, TABLE_DIR_RIGHT),
                            bld, hp, past)
        o_sym == sym_c - Ascii["0"]
        o_dir == IF dir_c = Ascii["R"] THEN TABLE_DIR_RIGHT ELSE TABLE_DIR_LEFT
        o_state == IF state_c - Ascii["A"] >= tab.n_states
                   THEN state_halt ELSE state_c - Ascii["A"]
        action == Action(o_state, o_sym, o_dir)
        stored == TableStore(tab, i_state, i_sym, action, bld, hp, past)
        read_action == TableLookup(stored.table, i_state, i_sym, bld, hp, past)
    IN  IF i_state >= tab.n_states THEN TableOut("none", tab)
        ELSE IF i_sym >= tab.n_syms
        THEN IF i_state < tab.n_states - 1 /\ term # Ascii["_"] THEN TableOut("error", tab)
             ELSE IF i_state = tab.n_states - 1 /\ term # 0 THEN TableOut("error", tab)
             ELSE TableParseCells(t, tab, i_state + 1, 0, bld, hp, past)
        ELSE IF sym_c = 0 \/ sym_c < Ascii["0"] \/ sym_c > Ascii["9"]
        THEN IF sym_c = Ascii["-"] /\ dir_c = Ascii["-"] /\ state_c = Ascii["-"]
             THEN IF undef.fault # "none" THEN undef
                  ELSE TableParseCells(t, undef.table, i_state, i_sym + 1, bld, hp, past)
             ELSE TableOut("error", tab)
        ELSE IF o_sym >= tab.n_syms THEN TableOut("error", tab)
        ELSE IF dir_c = 0 \/ (dir_c # Ascii["L"] /\ dir_c # Ascii["R"])
        THEN TableOut("error", tab)
        ELSE IF state_c = 0 \/ state_c < Ascii["A"] \/ state_c > Ascii["Z"]
        THEN TableOut("error", tab)
        ELSE IF stored.fault # "none" THEN stored
        ELSE IF read_action.fault # "none" THEN TableOut(read_action.fault, stored.table)
        ELSE IF read_action.action # action THEN TableOut("assert", stored.table)
        ELSE TableParseCells(t, stored.table, i_state, i_sym + 1, bld, hp, past)

\* table_parse(txt); with no cell in the first row the division for n_states
\* is by zero
TableParse(t, bld, hp, past) ==
    LET cols == FirstRowWidth(t, 0)
        n_syms == cols \div 3
        n_states == (Len(t) + 1) \div (n_syms * 3 + 1)
        tape_n_syms == n_states * n_syms
        tape_sym_bits == CeilLog2(n_states + 1) + CeilLog2(n_syms) + 1
    IN  IF cols % 3 # 0 THEN TableOut("error", NoTable)
        ELSE IF n_syms = 0 THEN TableOut("trap", NoTable)
        ELSE TableParseCells(t, [n_syms |-> n_syms, n_states |-> n_states,
                                 tape |-> TapeInit(tape_n_syms, tape_sym_bits)],
                             0, 0, bld, hp, past)

\* machine_init(table, tape, start_pos)
MachineInit(start_pos) == [curr_state |-> 0, curr_pos |-> start_pos, curr_step |-> 0]

\* the result of machine_step: the machine, its tape, the exit taken and the
\* value returned
MachineOut(m, t, f, ret) == [machine |-> m, tape |-> t, fault |-> f, ret |-> ret]

\* machine_step(machine)
MachineStep(tab, t, m, bld, hp, past) ==
    LET m1 == [m EXCEPT !.curr_step = @ + 1]
        i_sym == TapeRead(t, m.curr_pos, bld, hp, past)
        look == TableLookup(tab, m.curr_state, BlockValue(i_sym.unit), bld, hp, past)
        m2 == [m1 EXCEPT !.curr_state = look.action.o_state]
        w == TapeWrite(t, m.curr_pos, ToBlock(look.action.o_sym), bld, hp, past)
        m3 == [m2 EXCEPT !.curr_pos =
                   @ + (IF look.action.o_dir = TABLE_DIR_RIGHT THEN 1 ELSE -1)]
    IN  IF m.curr_state >= tab.n_states THEN MachineOut(m, t, "none", 1)
        ELSE IF i_sym.fault # "none" THEN MachineOut(m1, t, i_sym.fault, 0)
        ELSE IF look.fault # "none" THEN MachineOut(m1, t, look.fault, 0)
        ELSE IF look.action.o_state >= tab.n_states THEN MachineOut(m2, t, "none", 1)
        ELSE IF w.fault # "none" THEN MachineOut(m2, t, w.fault, 0)
        ELSE MachineOut(m3, w.tape, "none", 0)

(***************************************************************************)
(* SpecMm: tm_def_to_mm_def(def, scale) for any of the programs.  The call *)
(* is followed pass by pass through the loop of mm_determine_instr, so a   *)
(* loop that is never left is a behaviour of the specification.            *)
(***************************************************************************)
MaxScale == 2

\* the width the step counters of the two simulations are kept at
MaxMmSteps == 4

\* the steps taken of a run of the macro machine
MaxMacroSteps == 3

\* 0LB0LB_0RA0RA, next to the programs of the runs
MmPrograms == Programs \cup
    {Def(2, 2, <<Instr(0, DIR_LEFT, 1), Instr(0, DIR_LEFT, 1),
                 Instr(0, DIR_RIGHT, 0), Instr(0, DIR_RIGHT, 0)>>)}

NoSim == Sim(NoRun, NoTape)

NoInstr == Instr(0, DIR_LEFT, 0)

\* a simulation with its step counter at the width kept
Narrow(sim) == [sim EXCEPT !.run.steps = @ % MaxMmSteps]

InitMm ==
    /\ def \in MmPrograms
    /\ run = NoRun
    /\ rle = NoTape
    /\ flat = NoTape
    /\ bit = NoTape
    /\ build = "wrap"
    /\ heap \in Heaps
    /\ txt = <<>>
    /\ out = <<>>
    /\ mm \in {[pc |-> "start", scale |-> scale, state |-> 0, sym |-> 0,
                slow |-> NoSim, fast |-> NoSim, mm_def |-> NoDef,
                instr |-> NoInstr, of_state |-> 0, of_sym |-> 0, passes |-> 0] :
                   scale \in 1..MaxScale}
    /\ tape_b = NoTape
    /\ call = NoCall
    /\ fault = "none"
    /\ last = NoLast
    /\ ref = RefInit

\* mm_determine_instr(def, scale, state, sym) up to the loop; passes counts,
\* up to MaxMmSteps, the passes through the loop the call has completed
MmEnter(m, state, sym, mem_slow, mem_fast) ==
    [m EXCEPT !.pc = "loop", !.state = state, !.sym = sym, !.passes = 0,
              !.slow = MmSimInit(m.scale, state, sym, mem_slow),
              !.fast = MmSimInit(m.scale, state, sym, mem_fast)]

\* the client calls tm_def_to_mm_def(def, scale)
TmDefToMmDefCall ==
    /\ fault = "none"
    /\ mm.pc = "start"
    /\ IF def.n_syms # 2
       THEN /\ fault' = "error"
            /\ mm' = mm
       ELSE \E mem \in TabGarbage, mem_slow \in Garbage, mem_fast \in Garbage :
                LET o == TmDefInit(def.n_syms * 2 ^ (mm.scale - 1), def.n_states * 2, mem)
                IN  /\ fault' = o.fault
                    /\ mm' = MmEnter([mm EXCEPT !.mm_def = o.def], 0, 0, mem_slow, mem_fast)
    /\ last' = [last EXCEPT !.op = "tm_def_to_mm_def"]
    /\ UNCHANGED <<tape_b, heap, txt, out, def, run, rle, flat, bit, build, call, ref>>

\* a pass through the body of while (1) that stays in the loop
MmLoopPass ==
    /\ fault = "none"
    /\ mm.pc = "loop"
    /\ \E o \in {MmLoopBody(def, mm.scale, mm.state % 2, mm.slow, mm.fast)} :
           /\ ~o.exit
           /\ fault' = o.fault
           /\ mm' = [mm EXCEPT !.slow = Narrow(o.slow), !.fast = Narrow(o.fast),
                                !.passes = IF @ < MaxMmSteps THEN @ + 1 ELSE @]
    /\ UNCHANGED <<tape_b, heap, txt, out, def, run, rle, flat, bit, build, call, last, ref>>

\* the pass that leaves the loop, the rest of mm_determine_instr, and
\* tm_def_to_mm_def up to the next loop or to its return
MmReturn ==
    /\ fault = "none"
    /\ mm.pc = "loop"
    /\ \E o \in {MmLoopBody(def, mm.scale, mm.state % 2, mm.slow, mm.fast)} :
           /\ o.exit
           /\ \E mem \in TabGarbage, mem_slow \in Garbage, mem_fast \in Garbage :
              \E instr \in {MmConstruct(mm.scale, o.slow, o.out_dir, mem)} :
              \E s \in {TmDefStore(mm.mm_def, mm.state, mm.sym, instr, heap)} :
              \E m \in {[mm EXCEPT !.slow = Narrow(o.slow), !.fast = Narrow(o.fast),
                                  !.instr = instr, !.of_state = mm.state,
                                  !.of_sym = mm.sym, !.mm_def = s.def]} :
                  /\ fault' = s.fault
                  /\ mm' = IF s.fault # "none" THEN m
                           ELSE IF mm.sym + 1 < mm.mm_def.n_syms
                           THEN MmEnter(m, mm.state, mm.sym + 1, mem_slow, mem_fast)
                           ELSE IF mm.state + 1 < mm.mm_def.n_states
                           THEN MmEnter(m, mm.state + 1, 0, mem_slow, mem_fast)
                           ELSE [m EXCEPT !.pc = "done"]
    /\ last' = [last EXCEPT !.op = "mm_determine_instr"]
    /\ UNCHANGED <<tape_b, heap, txt, out, def, run, rle, flat, bit, build, call, ref>>

\* the table tm_def_lookup reads out of the three tables of d
Looked(d, hp) ==
    [n_syms |-> d.n_syms, n_states |-> d.n_states,
     instr_tab |-> [idx \in 0..(d.n_syms * d.n_states - 1) |->
                        TmDefLookupPacked(d, idx \div d.n_syms, idx % d.n_syms, hp).instr]]

\* the client calls tm_run_init(mm_def, 1, 0, 0) on the table returned
MmRunInit ==
    /\ fault = "none"
    /\ mm.pc = "done"
    /\ mm' = [mm EXCEPT !.pc = "run"]
    /\ run' = [steps |-> 0, state |-> 0]
    /\ rle' = RleTapeInit
    /\ last' = [last EXCEPT !.op = "tm_run_init"]
    /\ UNCHANGED <<tape_b, heap, txt, out, def, flat, bit, build, call, fault, ref>>

\* the client calls tm_run_step on the run of the macro machine
MmRunStep ==
    /\ fault = "none"
    /\ mm.pc = "run"
    /\ run.steps < MaxMacroSteps
    /\ ~TmRunHalted(mm.mm_def, run)
    /\ \E o \in {TmRunStep(Looked(mm.mm_def, heap), run, rle, NoTape)} :
           /\ o.fault = "none" => o.rle.rel_pos \in Positions
           /\ Stepped(o)
    /\ last' = [last EXCEPT !.op = "tm_run_step"]
    /\ UNCHANGED <<tape_b, heap, txt, out, mm, def, bit, build, call, ref>>

NextMm == TmDefToMmDefCall \/ MmLoopPass \/ MmReturn \/ MmRunInit \/ MmRunStep

SpecMm == InitMm /\ [][NextMm]_vars

\* every pass of a loop that is running is eventually made
SpecMmFair == SpecMm /\ WF_vars(NextMm)

(***************************************************************************)
(* SpecDir: a program text is parsed by tm_def_parse and run by            *)
(* tm_run_step on an RLE tape, or parsed by table_parse and run by         *)
(* machine_step on a bit array tape.                                       *)
(***************************************************************************)
\* 1LA0LA
TextLeft == Cell("1", "L", "A") \o Cell("0", "L", "A")

\* 1RZ1RZ
TextHalt == Cell("1", "R", "Z") \o Cell("1", "R", "Z")

DirTexts == {Text2x2, TextUndef, Text2x3, TextLeft, TextHalt}

InitDir ==
    /\ txt \in DirTexts
    /\ build \in Builds
    /\ heap \in Heaps
    /\ def = NoDef
    /\ run = NoRun
    /\ rle = NoTape
    /\ flat = NoTape
    /\ bit = NoTape
    /\ out = <<>>
    /\ mm = NoMm
    /\ tape_b = NoTape
    /\ call = [NoCall EXCEPT !.pc = "start"]
    /\ fault = "none"
    /\ last = NoLast
    /\ ref = RefInit

\* tm_def_parse(txt), then tm_run_init(def, 1, 0, 0)
DirTmDefParse ==
    /\ fault = "none"
    /\ call.pc = "start"
    /\ \E mem \in TabGarbage : \E o \in {TmDefParse(txt, mem, heap)} :
           /\ def' = o.def
           /\ fault' = o.fault
    /\ run' = [steps |-> 0, state |-> 0]
    /\ rle' = RleTapeInit
    /\ call' = [call EXCEPT !.pc = "tm_def"]
    /\ last' = [last EXCEPT !.op = "tm_def_parse"]
    /\ UNCHANGED <<tape_b, heap, txt, out, mm, bit, build, flat, ref>>

\* table_parse(txt), then tape_init for 2 * MaxPos + 1 cells and
\* machine_init(table, tape, MaxPos)
DirTableParse ==
    /\ fault = "none"
    /\ call.pc = "start"
    /\ \E past \in PastWords : \E o \in {TableParse(txt, build, heap, past)} :
           /\ def' = o.table
           /\ fault' = o.fault
           /\ bit' = TapeInit(2 * MaxPos + 1, CeilLog2(o.table.n_syms))
    /\ run' = MachineInit(MaxPos)
    /\ call' = [call EXCEPT !.pc = "table"]
    /\ last' = [last EXCEPT !.op = "table_parse"]
    /\ UNCHANGED <<tape_b, heap, txt, out, mm, rle, build, flat, ref>>

\* tm_run_step on the run of the parsed table
DirTmRunStep ==
    /\ fault = "none"
    /\ call.pc = "tm_def"
    /\ run.steps < MaxRunSteps
    /\ ~TmRunHalted(def, run)
    /\ \E o \in {TmRunStep(Looked(def, heap), run, rle, NoTape)} :
           /\ o.fault = "none" => o.rle.rel_pos \in Positions
           /\ Stepped(o)
           /\ last' = [last EXCEPT !.op = "tm_run_step", !.ret = o.ret]
    /\ UNCHANGED <<tape_b, heap, txt, out, mm, def, bit, build, call, ref>>

\* machine_step on the machine of the parsed table
DirMachineStep ==
    /\ fault = "none"
    /\ call.pc = "table"
    /\ run.curr_step < MaxRunSteps
    /\ \E past \in PastWords : \E o \in {MachineStep(def, bit, run, build, heap, past)} :
           /\ run' = o.machine
           /\ bit' = o.tape
           /\ fault' = o.fault
           /\ last' = [last EXCEPT !.op = "machine_step", !.ret = o.ret]
    /\ UNCHANGED <<tape_b, heap, txt, out, mm, def, rle, flat, build, call, ref>>

NextDir == DirTmDefParse \/ DirTableParse \/ DirTmRunStep \/ DirMachineStep

SpecDir == InitDir /\ [][NextDir]_vars

(***************************************************************************)
(* SpecTab: instructions are stored into and looked up from a transition   *)
(* table, the three tables of tm_def_init (src/tm_def.c) or the bit array  *)
(* table that table_parse sets up (src/table.c).  run holds the arguments  *)
(* of the last call and call.steps counts the stores.                      *)
(***************************************************************************)
\* the number of stores followed
MaxStores == 2

\* <<n_syms, n_states>> of the tables of tm_def_init: 4 slots, and 65 slots
\* so that the last slot has its direction bit in dir_tab[1]
TmDefSizes == {<<2, 2>>, <<5, 13>>}

\* <<n_syms, n_states>> of the bit array tables: 12 slots of 6 bits, of which
\* slot (5, 0) lies across units 0 and 1, and 32 slots of 8 bits, which fill
\* 4 units exactly
TableSizes == {<<2, 6>>, <<2, 16>>}

\* the table as table_parse has it before its loops: n_syms, n_states and
\* the tape of tape_init(tape_n_syms, tape_sym_bits)
TableInit(n_syms, n_states) ==
    [n_syms |-> n_syms, n_states |-> n_states,
     tape |-> TapeInit(n_states * n_syms, CeilLog2(n_states + 1) + CeilLog2(n_syms) + 1)]

\* state_halt of table_parse
StateHalt(n_states, bld) == BlockValue(Bitmask(0, CeilLog2(n_states + 1), bld))

\* the slots stored to and looked up: the corners of the table
SlotStates(d) == {0, d.n_states - 1}
SlotSyms(d) == {0, d.n_syms - 1}

\* the instructions a parser stores: first or last symbol, either direction,
\* the last state or a halting state
TmDefInstrs(d) ==
    {Instr(sym, dir, state) : sym \in SlotSyms(d), dir \in {DIR_LEFT, DIR_RIGHT},
                              state \in {d.n_states - 1, STATE_UNDEF}}
TableActions(d, bld) ==
    {Action(o_state, o_sym, o_dir) : o_state \in {d.n_states - 1, StateHalt(d.n_states, bld)},
                                     o_sym \in SlotSyms(d),
                                     o_dir \in {TABLE_DIR_RIGHT, TABLE_DIR_LEFT}}

NoArgs == [state |-> 0, sym |-> 0, instr |-> Instr(0, 0, 0)]

InitTab ==
    /\ build \in Builds
    /\ heap \in Heaps
    /\ \/ /\ \E size \in TmDefSizes : \E mem \in TabGarbage :
                def = TmDefInit(size[1], size[2], mem).def
          /\ call = [NoCall EXCEPT !.pc = "tm_def"]
          /\ build = "wrap"
       \/ /\ \E size \in TableSizes : def = TableInit(size[1], size[2])
          /\ call = [NoCall EXCEPT !.pc = "table"]
    /\ run = NoArgs
    /\ rle = NoTape
    /\ flat = NoTape
    /\ bit = NoTape
    /\ txt = <<>>
    /\ out = <<>>
    /\ mm = NoMm
    /\ tape_b = NoTape
    /\ fault = "none"
    /\ last = NoLast
    /\ ref = RefInit

\* tm_def_store(def, state, sym, instr)
TmDefStoreOp(state, sym, instr) ==
    /\ fault = "none"
    /\ call.pc = "tm_def"
    /\ call.steps < MaxStores
    /\ \E o \in {TmDefStore(def, state, sym, instr, heap)} :
           /\ def' = o.def
           /\ fault' = o.fault
    /\ run' = [state |-> state, sym |-> sym, instr |-> instr]
    /\ call' = [call EXCEPT !.steps = @ + 1]
    /\ last' = [last EXCEPT !.op = "tm_def_store"]
    /\ UNCHANGED <<tape_b, heap, txt, out, mm, rle, flat, bit, build, ref>>

\* tm_def_lookup(def, state, sym)
TmDefLookupOp(state, sym) ==
    /\ fault = "none"
    /\ call.pc = "tm_def"
    /\ \E o \in {TmDefLookupPacked(def, state, sym, heap)} :
           /\ fault' = o.fault
           /\ run' = [state |-> state, sym |-> sym, instr |-> o.instr]
    /\ last' = [last EXCEPT !.op = "tm_def_lookup"]
    /\ UNCHANGED <<tape_b, heap, txt, out, mm, def, rle, flat, bit, build, call, ref>>

\* table_store(table, i_state, i_sym, action)
TableStoreOp(i_state, i_sym, action) ==
    /\ fault = "none"
    /\ call.pc = "table"
    /\ call.steps < MaxStores
    /\ \E past \in PastWords :
           \E o \in {TableStore(def, i_state, i_sym, action, build, heap, past)} :
               /\ def' = o.table
               /\ fault' = o.fault
    /\ run' = [state |-> i_state, sym |-> i_sym, instr |-> action]
    /\ call' = [call EXCEPT !.steps = @ + 1]
    /\ last' = [last EXCEPT !.op = "table_store"]
    /\ UNCHANGED <<tape_b, heap, txt, out, mm, rle, flat, bit, build, ref>>

\* table_lookup(table, i_state, i_sym)
TableLookupOp(i_state, i_sym) ==
    /\ fault = "none"
    /\ call.pc = "table"
    /\ \E past \in PastWords :
           \E o \in {TableLookup(def, i_state, i_sym, build, heap, past)} :
               /\ fault' = o.fault
               /\ run' = [state |-> i_state, sym |-> i_sym, instr |-> o.action]
    /\ last' = [last EXCEPT !.op = "table_lookup"]
    /\ UNCHANGED <<tape_b, heap, txt, out, mm, def, rle, flat, bit, build, call, ref>>

TmDefStoreAny ==
    \E state \in SlotStates(def) : \E sym \in SlotSyms(def) :
        \E instr \in TmDefInstrs(def) : TmDefStoreOp(state, sym, instr)
TmDefLookupAny ==
    \E state \in SlotStates(def) : \E sym \in SlotSyms(def) : TmDefLookupOp(state, sym)
TableStoreAny ==
    \E i_state \in SlotStates(def) : \E i_sym \in SlotSyms(def) :
        \E action \in TableActions(def, build) : TableStoreOp(i_state, i_sym, action)
TableLookupAny ==
    \E i_state \in SlotStates(def) : \E i_sym \in SlotSyms(def) : TableLookupOp(i_state, i_sym)

NextTab == TmDefStoreAny \/ TmDefLookupAny \/ TableStoreAny \/ TableLookupAny

SpecTab == InitTab /\ [][NextTab]_vars

(***************************************************************************)
(* SpecUnits: symbols are written to and read from a bit array tape of     *)
(* tape_init (src/bitarray/tape.c) at any index.  run holds the arguments  *)
(* of the last call.                                                       *)
(***************************************************************************)
\* the units tape_read and tape_write access for the symbol sym_idx
TapeUnits(t, sym_idx) ==
    LET unit_from == (sym_idx * t.sym_bits) \div BLOCK_BITS
        unit_to == ((sym_idx + 1) * t.sym_bits) \div BLOCK_BITS
    IN  IF unit_from = unit_to THEN {unit_from} ELSE {unit_from, unit_to}

InitUnits ==
    /\ build \in Builds
    /\ heap \in Heaps
    /\ \E sym_bits \in BitWidths : \E n_syms \in 1..MaxBitSyms :
           bit = TapeInit(n_syms, sym_bits)
    /\ run = [sym_idx |-> 0, unit |-> {}]
    /\ def = NoDef
    /\ rle = NoTape
    /\ flat = NoTape
    /\ txt = <<>>
    /\ out = <<>>
    /\ mm = NoMm
    /\ tape_b = NoTape
    /\ call = NoCall
    /\ fault = "none"
    /\ last = [NoLast EXCEPT !.op = "tape_init"]
    /\ ref = RefInit

\* tape_write(tape, sym_idx, sym)
TapeWriteOp(sym_idx, v) ==
    /\ fault = "none"
    /\ \E past \in PastWords : \E o \in {TapeWrite(bit, sym_idx, ToBlock(v), build, heap, past)} :
           /\ bit' = o.tape
           /\ fault' = o.fault
    /\ run' = [sym_idx |-> sym_idx, unit |-> ToBlock(v)]
    /\ last' = [last EXCEPT !.op = "tape_write"]
    /\ UNCHANGED <<tape_b, heap, txt, out, mm, def, rle, flat, build, call, ref>>

\* tape_read(tape, sym_idx)
TapeReadOp(sym_idx) ==
    /\ fault = "none"
    /\ \E past \in PastWords : \E o \in {TapeRead(bit, sym_idx, build, heap, past)} :
           /\ fault' = o.fault
           /\ run' = [sym_idx |-> sym_idx, unit |-> o.unit]
    /\ last' = [last EXCEPT !.op = "tape_read"]
    /\ UNCHANGED <<tape_b, heap, txt, out, mm, def, bit, rle, flat, build, call, ref>>

TapeWriteAny ==
    \E sym_idx \in 0..(bit.n_syms - 1) : \E v \in BitValues(bit.sym_bits) :
        TapeWriteOp(sym_idx, v)
TapeReadAny == \E sym_idx \in 0..(bit.n_syms - 1) : TapeReadOp(sym_idx)

NextUnits == TapeWriteAny \/ TapeReadAny

SpecUnits == InitUnits /\ [][NextUnits]_vars

(***************************************************************************)
(* SpecWidth: the width of a symbol that tm_run_init (src/tm_run.c) and    *)
(* verify_test_case (src/test.c) compute from n_syms and hand to the tape  *)
(* constructors.  last.ret holds the width.                                *)
(***************************************************************************)
\* the tables have 2..MaxNSyms symbols
MaxNSyms == 33

RECURSIVE FloorLog2From(_, _)
\* the while loop of floor_log2
FloorLog2From(n, shift) ==
    IF n \div (2 ^ (shift + 1)) > 0 THEN FloorLog2From(n, shift + 1) ELSE shift

\* floor_log2(n) of src/tm.c
FloorLog2(n) == FloorLog2From(n, 0)

\* the assert of rle_tape_init, flat_tape_init on the width
WidthAccepted(sym_bits) == 1 <= sym_bits /\ sym_bits <= MAX_SYM_BITS

InitWidth ==
    /\ \E n_syms \in 2..MaxNSyms : def = [n_syms |-> n_syms, n_states |-> 1]
    /\ run = NoRun
    /\ rle = NoTape
    /\ flat = NoTape
    /\ bit = NoTape
    /\ build = "wrap"
    /\ heap = "slack"
    /\ txt = <<>>
    /\ out = <<>>
    /\ mm = NoMm
    /\ tape_b = NoTape
    /\ call = [NoCall EXCEPT !.pc = "start"]
    /\ fault = "none"
    /\ last = NoLast
    /\ ref = RefInit

\* tm_run_init(def, use_rle_tape, flat_tape_len, 0)
TmRunInitCall(use_rle_tape, flat_tape_len) ==
    /\ fault = "none"
    /\ call.pc = "start"
    /\ \E sym_bits \in {FloorLog2(def.n_syms)} : \E mem \in Garbage :
           /\ last' = [last EXCEPT !.op = "tm_run_init",
                                   !.ret = IF use_rle_tape = 0 /\ flat_tape_len <= 0
                                           THEN @ ELSE sym_bits]
           /\ fault' = IF use_rle_tape = 0 /\ flat_tape_len <= 0 THEN "error"
                       ELSE IF ~WidthAccepted(sym_bits) THEN "assert"
                       ELSE "none"
           /\ rle' = IF use_rle_tape # 0 /\ WidthAccepted(sym_bits) THEN RleTapeInit ELSE NoTape
           /\ flat' = IF flat_tape_len > 0 /\ WidthAccepted(sym_bits)
                      THEN FlatTapeInit(flat_tape_len, 0, [i \in 0..(flat_tape_len - 1) |-> mem])
                      ELSE NoTape
    /\ run' = [steps |-> 0, state |-> 0]
    /\ call' = [call EXCEPT !.pc = "run"]
    /\ UNCHANGED <<tape_b, heap, txt, out, mm, def, bit, build, ref>>

\* verify_test_case up to tm_run_init: the tapes the flags ask for are made
\* with the width ceil_log2(n_syms); the bit tape has 2 * MaxPos + 1 cells
VerifyTestCaseInit(tape_rle, tape_flat, tape_bit) ==
    /\ fault = "none"
    /\ call.pc = "start"
    /\ \E sym_bits \in {CeilLog2(def.n_syms)} : \E mem \in Garbage :
           /\ last' = [last EXCEPT !.op = "verify_test_case", !.ret = sym_bits]
           /\ fault' = IF (tape_rle + tape_flat > 0) /\ ~WidthAccepted(sym_bits)
                       THEN "assert" ELSE "none"
           /\ rle' = IF tape_rle = 1 /\ WidthAccepted(sym_bits) THEN RleTapeInit ELSE NoTape
           /\ flat' = IF tape_flat = 1 /\ WidthAccepted(sym_bits)
                      THEN FlatTapeInit(2, 1, [i \in 0..1 |-> mem])
                      ELSE NoTape
           /\ bit' = IF tape_bit = 1 /\ (tape_rle + tape_flat > 0 => WidthAccepted(sym_bits))
                     THEN BitTapeInit(sym_bits, 2 * MaxPos + 1, MaxPos)
                     ELSE NoTape
    /\ run' = [steps |-> 0, state |-> 0]
    /\ call' = [call EXCEPT !.pc = "test"]
    /\ UNCHANGED <<tape_b, heap, txt, out, mm, def, build, ref>>

TmRunInitAny ==
    \E use_rle_tape \in {0, 1} : \E flat_tape_len \in 0..MaxInitLen :
        TmRunInitCall(use_rle_tape, flat_tape_len)
VerifyTestCaseInitAny ==
    \E tape_rle \in {0, 1} : \E tape_flat \in {0, 1} : \E tape_bit \in {0, 1} :
        VerifyTestCaseInit(tape_rle, tape_flat, tape_bit)

NextWidth == TmRunInitAny \/ VerifyTestCaseInitAny

SpecWidth == InitWidth /\ [][NextWidth]_vars

(***************************************************************************)
(* SpecEdge: a tape whose head has been moved to within MaxEdge cells of   *)
(* the least or the greatest position an int allows.  The RLE tape is the  *)
(* blank tape after that many moves, one run of zeros; the flat tape was   *)
(* made with len INT_MAX and the head has moved through it, and syms holds *)
(* the cells of the buffer the head can be on.                             *)
(***************************************************************************)
\* <limits.h>, int of 32 bits
INT_MAX == 2147483647
INT_MIN == 0 - INT_MAX - 1

\* the head is followed while it is within MaxEdge cells of a limit
MaxEdge == 3

\* the asserts with the upper limit of a move to the right one too high
MoveInRangeOffByOne(rel_pos, delta) ==
    IF delta = -1 THEN INT_MIN + 2 < rel_pos /\ rel_pos < INT_MAX - 1
    ELSE INT_MIN + 1 < rel_pos /\ rel_pos < INT_MAX - 1

\* the asserts on rel_pos that open rle_tape_move and flat_tape_move
MoveInRange(rel_pos, delta) ==
    IF delta = -1 THEN INT_MIN + 2 < rel_pos /\ rel_pos < INT_MAX - 1
    ELSE INT_MIN + 1 < rel_pos /\ rel_pos < INT_MAX - 2

\* the blank RLE tape after moves in one direction have taken the head to
\* rel_pos
RleTapeAt(rel_pos) ==
    [elems |-> RleElemInit(EmptyHeap, 1, 0, (IF rel_pos < 0 THEN 0 - rel_pos ELSE rel_pos) + 1),
     curr |-> 1,
     rle_pos |-> IF rel_pos < 0 THEN 0 ELSE rel_pos,
     rel_pos |-> rel_pos]

\* the flat tape of flat_tape_init(INT_MAX, init_pos) after moves have taken
\* the head to rel_pos; mem is what malloc left in the cells
FlatTapeAt(rel_pos, init_pos, mem) ==
    [syms |-> [mem_pos \in {p \in (rel_pos + init_pos - MaxEdge)..(rel_pos + init_pos + MaxEdge) :
                               0 <= p /\ p < INT_MAX} |-> mem],
     len |-> INT_MAX, rel_pos |-> rel_pos, init_pos |-> init_pos]

\* the head is within MaxEdge cells of the limit it started at
NearEdge(rel_pos) ==
    IF rel_pos < 0 THEN rel_pos <= INT_MIN + 2 + MaxEdge ELSE rel_pos >= INT_MAX - 2 - MaxEdge

InitEdge ==
    /\ \/ /\ rle \in {RleTapeAt(INT_MAX - 2 - MaxEdge), RleTapeAt(INT_MIN + 2 + MaxEdge)}
          /\ flat = NoTape
       \/ /\ rle = NoTape
          /\ \E mem \in Garbage :
                 flat \in {FlatTapeAt(INT_MAX - 2 - MaxEdge, 0, mem),
                           FlatTapeAt(INT_MIN + 2 + MaxEdge, INT_MAX - 1, mem)}
    /\ def = NoDef
    /\ run = NoRun
    /\ bit = NoTape
    /\ build = "wrap"
    /\ heap = "slack"
    /\ txt = <<>>
    /\ out = <<>>
    /\ mm = NoMm
    /\ tape_b = NoTape
    /\ call = NoCall
    /\ fault = "none"
    /\ last = NoLast
    /\ ref = RefInit

\* rle_tape_move(tape, delta)
EdgeRleMove(delta) ==
    /\ fault = "none"
    /\ rle # NoTape
    /\ NearEdge(rle.rel_pos + delta)
    /\ IF MoveInRange(rle.rel_pos, delta)
       THEN rle' = RleRename(RleTapeMove(rle, delta)) /\ fault' = "none"
       ELSE rle' = rle /\ fault' = "assert"
    /\ last' = [last EXCEPT !.op = "rle_tape_move", !.ret = delta]
    /\ UNCHANGED <<tape_b, heap, txt, out, mm, bit, build, def, run, flat, call, ref>>

\* rle_tape_write(tape, sym)
EdgeRleWrite(sym) ==
    /\ fault = "none"
    /\ rle # NoTape
    /\ rle' = RleRename(RleTapeWrite(rle, sym))
    /\ last' = [last EXCEPT !.op = "rle_tape_write", !.ret = sym]
    /\ UNCHANGED <<tape_b, heap, txt, out, mm, bit, build, def, run, flat, call, fault, ref>>

\* flat_tape_move(tape, delta)
EdgeFlatMove(delta) ==
    /\ fault = "none"
    /\ flat # NoTape
    /\ NearEdge(flat.rel_pos + delta)
    /\ IF MoveInRange(flat.rel_pos, delta)
       THEN /\ flat' = FlatTapeMove(flat, delta)
            /\ fault' = IF FlatHeadInside(flat') THEN "none" ELSE "assert"
       ELSE flat' = flat /\ fault' = "assert"
    /\ last' = [last EXCEPT !.op = "flat_tape_move", !.ret = delta]
    /\ UNCHANGED <<tape_b, heap, txt, out, mm, bit, build, def, run, rle, call, ref>>

\* flat_tape_write(tape, sym)
EdgeFlatWrite(sym) ==
    /\ fault = "none"
    /\ flat # NoTape
    /\ flat' = FlatTapeWrite(flat, sym)
    /\ last' = [last EXCEPT !.op = "flat_tape_write", !.ret = sym]
    /\ UNCHANGED <<tape_b, heap, txt, out, mm, bit, build, def, run, rle, call, fault, ref>>

EdgeRleMoveAny == \E delta \in {-1, 1} : EdgeRleMove(delta)
EdgeRleWriteAny == \E sym \in Syms : EdgeRleWrite(sym)
EdgeFlatMoveAny == \E delta \in {-1, 1} : EdgeFlatMove(delta)
EdgeFlatWriteAny == \E sym \in Syms : EdgeFlatWrite(sym)

NextEdge == EdgeRleMoveAny \/ EdgeRleWriteAny \/ EdgeFlatMoveAny \/ EdgeFlatWriteAny

SpecEdge == InitEdge /\ [][NextEdge]_vars

(***************************************************************************)
(* SpecCompare: the test program of src/test.c with its flags.  main       *)
(* checks the flags, verify_test_case makes the tapes the flags ask for    *)
(* and runs the test case in batches of BATCH_STEPS steps; with -c the     *)
(* tapes are compared after every batch.  The program of the test case     *)
(* halts after tcase->steps steps.  tape_cmp is declared in src/tape.h     *)
(* and defined nowhere in src/: it returns 0 for tapes that agree inside   *)
(* the window and another value otherwise, and a call with a null pointer  *)
(* for a tape is undefined.                                                *)
(***************************************************************************)
BATCH_STEPS == 100
MAX_STEPS == 134217727
MaxBatches == 3

\* the steps after which the programs of the test cases halt
TestCaseSteps == {38, BATCH_STEPS + 7, MaxBatches * BATCH_STEPS - 50}

\* struct flags_t without quiet
Flags == [compare : {0, 1}, tape_rle : {0, 1}, tape_flat : {0, 1}, tape_bit : {0, 1}]

\* the tape a pointer of verify_test_case points to, NoTape for a null pointer
TapeOf(name) ==
    IF name = "rle_tape" THEN rle ELSE IF name = "flat_tape" THEN flat ELSE bit

\* the calls of tape_cmp of one turn of the loop, in their order
CmpCalls ==
    IF run.flags.compare = 0 THEN <<>>
    ELSE (IF flat # NoTape /\ rle # NoTape THEN << <<"flat_tape", "bit_tape">> >> ELSE <<>>)
         \o (IF rle # NoTape /\ bit # NoTape THEN << <<"rle_tape", "bit_tape">> >> ELSE <<>>)
         \o (IF bit # NoTape /\ flat # NoTape THEN << <<"bit_tape", "flat_tape">> >> ELSE <<>>)

\* what a call of tape_cmp(t1, t2, COMPARE_WINDOW) can end in: 0 for no
\* difference, 1 for a difference, -1 for a call that does not return
TapeCmpOutcomes(t1, t2) ==
    IF TapeOf(t1) = NoTape \/ TapeOf(t2) = NoTape THEN {-1, 0, 1} ELSE {0, 1}

\* the calls made when the k-th call ends in cmp and the ones before in 0
CmpsMade(calls, k, cmp) ==
    [i \in 1..k |-> [t1 |-> calls[i][1], t2 |-> calls[i][2],
                     cmp |-> IF i = k THEN cmp ELSE 0]]

InitCompare ==
    /\ def = NoDef
    /\ \E flags \in Flags : \E steps \in TestCaseSteps :
           run = [steps |-> 0, state |-> 0, flags |-> flags, tcase |-> [steps |-> steps]]
    /\ rle = NoTape
    /\ flat = NoTape
    /\ bit = NoTape
    /\ build = "wrap"
    /\ heap = "slack"
    /\ txt = <<>>
    /\ out = <<>>
    /\ mm = NoMm
    /\ tape_b = NoTape
    /\ call = [NoCall EXCEPT !.pc = "main"]
    /\ fault = "none"
    /\ last = NoLast
    /\ ref = RefInit

\* main up to the first call of verify_test_case
MainFlags ==
    /\ fault = "none"
    /\ call.pc = "main"
    /\ fault' = IF run.flags.compare = 1
                   /\ run.flags.tape_flat + run.flags.tape_rle + run.flags.tape_bit < 2
                THEN "error" ELSE "none"
    /\ call' = [call EXCEPT !.pc = "verify"]
    /\ last' = [last EXCEPT !.op = "main"]
    /\ UNCHANGED <<def, run, rle, flat, bit, build, heap, txt, out, mm, tape_b, ref>>

\* verify_test_case up to the loop: the tapes are made as the flags say
\* (the bit tape with 2 * MaxPos + 1 cells)
VerifyTestCaseTapes ==
    /\ fault = "none"
    /\ call.pc = "verify"
    /\ rle' = IF run.flags.tape_rle = 1 THEN RleTapeInit ELSE NoTape
    /\ \E mem \in Garbage :
           flat' = IF run.flags.tape_flat = 1
                   THEN FlatTapeInit(16, 8, [i \in 0..15 |-> mem])
                   ELSE NoTape
    /\ bit' = IF run.flags.tape_bit = 1 THEN BitTapeInit(1, 2 * MaxPos + 1, MaxPos) ELSE NoTape
    /\ call' = [call EXCEPT !.pc = "loop"]
    /\ last' = [last EXCEPT !.op = "verify_test_case"]
    /\ UNCHANGED <<def, run, build, heap, txt, out, mm, tape_b, fault, ref>>

\* one turn of the while loop of verify_test_case: tm_run_steps(run,
\* BATCH_STEPS), the comparisons, and the two tests that leave the loop
VerifyTestCaseBatch ==
    /\ fault = "none"
    /\ call.pc = "loop"
    /\ call.taken < MaxBatches
    /\ \E steps \in {IF run.steps + BATCH_STEPS < run.tcase.steps
                     THEN run.steps + BATCH_STEPS ELSE run.tcase.steps} :
       \E calls \in {CmpCalls} :
       \E k \in 0..Len(calls) :
       \E cmp \in IF k = 0 THEN {0} ELSE TapeCmpOutcomes(calls[k][1], calls[k][2]) :
           /\ k < Len(calls) => cmp # 0
           /\ run' = [run EXCEPT !.steps = steps]
           /\ out' = CmpsMade(calls, k, cmp)
           /\ fault' = IF cmp = -1 THEN "trap" ELSE IF cmp # 0 THEN "assert" ELSE "none"
           /\ call' = [call EXCEPT !.taken = @ + 1,
                                   !.pc = IF cmp = 0 /\ (steps = run.tcase.steps
                                                         \/ steps >= MAX_STEPS)
                                          THEN "idle" ELSE @]
           /\ last' = [last EXCEPT !.op = "verify_batch", !.calls = k]
    /\ UNCHANGED <<def, rle, flat, bit, build, heap, txt, mm, tape_b, ref>>

NextCompare == MainFlags \/ VerifyTestCaseTapes \/ VerifyTestCaseBatch

SpecCompare == InitCompare /\ [][NextCompare]_vars

\* the relative positions a flat tape has cells for
FlatCovered(t) == {p \in Positions : 0 <= p + t.init_pos /\ p + t.init_pos < t.len}

(***************************************************************************)
(* C5: for a flat tape created with any len >= 1 and 0 <= init_pos < len,  *)
(* after any sequence of moves 0 <= rel_pos + init_pos < len, and len      *)
(* never decreases.                                                        *)
(***************************************************************************)
C5_FlatHeadInside ==
    flat # NoTape /\ rle = NoTape =>
        /\ FlatHeadInside(flat)
        /\ flat.len >= last.len_before

(***************************************************************************)
(* C6: right after flat_tape_init every cell holds 0, so a read at a       *)
(* position never written returns 0.                                       *)
(***************************************************************************)
C6_FlatInitZero ==
    flat # NoTape /\ rle = NoTape =>
        /\ last.op = "flat_tape_init" => \A i \in 0..(flat.len - 1) : flat.syms[i] = 0
        /\ last.op = "flat_tape_read" => last.ret = RefRead(ref)

(***************************************************************************)
(* C7: a move that leaves the buffer doubles the length, adds old_len / 2  *)
(* to init_pos, keeps the symbol of every relative position of the old     *)
(* buffer and leaves 0 in every added cell.                                *)
(***************************************************************************)
C7_Grows(t, u) ==
    /\ u.len = 2 * t.len
    /\ u.init_pos = t.init_pos + t.len \div 2
    /\ \A i \in 0..(t.len - 1) : u.syms[(i - t.init_pos) + u.init_pos] = t.syms[i]
    /\ \A j \in 0..(u.len - 1) :
           (j - u.init_pos) + t.init_pos \notin 0..(t.len - 1) => u.syms[j] = 0

RECURSIVE Repeat(_, _)
Repeat(sym, n) == IF n <= 0 THEN <<>> ELSE <<sym>> \o Repeat(sym, n - 1)

RECURSIVE RleExpand(_, _)
\* the symbols of the segments c, each repeated len times
RleExpand(h, c) ==
    IF c = <<>> THEN <<>> ELSE Repeat(h[Head(c)].sym, h[Head(c)].len) \o RleExpand(h, Tail(c))

RECURSIVE RleBefore(_, _, _)
\* the number of cells in the segments of c that come before segment e
RleBefore(h, c, e) ==
    IF c = <<>> \/ Head(c) = e THEN 0 ELSE h[Head(c)].len + RleBefore(h, Tail(c), e)

\* the symbol the tape holds at relative position p; what lies off the
\* chain is the blank rest of the tape
RleSymAt(t, p) ==
    LET cells == RleExpand(t.elems, RleChain(t))
        i     == RleBefore(t.elems, RleChain(t), t.curr) + t.rle_pos + 1 + (p - t.rel_pos)
    IN  IF 1 <= i /\ i <= Len(cells) THEN cells[i] ELSE 0

(***************************************************************************)
(* C2: rle_tape_read returns the symbol last written at the head's         *)
(* position, 0 if it was never written: the head is where the reference    *)
(* tape's head is, reads what it reads, and every cell holds what the      *)
(* reference tape holds there.                                             *)
(***************************************************************************)
C2_RleReadsLastWritten ==
    rle # NoTape /\ flat = NoTape =>
        /\ rle.rel_pos = ref.pos
        /\ RleTapeRead(rle) = RefRead(ref)
        /\ \A p \in Positions : RleSymAt(rle, p) = ref.cells[p]

\* the head has come back to a cell written before, left of another written cell
C2_Witness ==
    /\ rle # NoTape /\ flat = NoTape
    /\ last.op = "rle_tape_move"
    /\ rle.rel_pos = -1
    /\ RleTapeRead(rle) = 1
    /\ ref.cells[0] = 0
    /\ ref.cells[1] = 1

(***************************************************************************)
(* C3: no two adjacent segments of the chain hold the same symbol.         *)
(***************************************************************************)
C3_NoAdjacentEqual ==
    rle # NoTape =>
        \A a \in LiveElems(rle.elems) :
            rle.elems[a].right # NULL =>
                rle.elems[rle.elems[a].right].sym # rle.elems[a].sym

(***************************************************************************)
(* C1: one call of tm_run_steps(run, max_steps) performs at most max_steps *)
(* steps, counted from its own first step; it returns 1 if the machine     *)
(* halted during the call, and otherwise 0 after exactly max_steps steps.  *)
(***************************************************************************)
C1_BudgetRespected ==
    /\ call.taken <= call.max_steps
    /\ last.op = "tm_run_steps_return" /\ last.ret = 1 => run.state >= def.n_states
    /\ last.op = "tm_run_steps_return" /\ last.ret = 0 => call.taken = call.max_steps

(***************************************************************************)
(* C4: with an RLE tape and a flat tape attached, after every tm_run_step  *)
(* the two heads are at the same relative position and the two tapes hold  *)
(* the same symbol under the head.                                         *)
(***************************************************************************)
C4_TapesAgreeAtHead ==
    rle # NoTape /\ flat # NoTape /\ last.calls > 0 /\ fault = "none" =>
        /\ rle.rel_pos = flat.rel_pos
        /\ RleTapeRead(rle) = FlatTapeRead(flat)

(***************************************************************************)
(* C9: tm_run_step on a run whose state is >= n_states ends in the fatal   *)
(* error and changes neither a tape, a head, the state nor the step        *)
(* counter.                                                                *)
(***************************************************************************)
C9_HaltedStepIsFatal ==
    [][(run.state >= def.n_states /\ last'.calls = last.calls + 1)
       => (fault' = "error" /\ run' = run /\ rle' = rle /\ flat' = flat)]_vars

\* a machine that ran, halted, and was stepped once more
C9_Witness ==
    /\ fault = "error"
    /\ last.op = "tm_run_step"
    /\ run.steps > 0
    /\ run.state >= def.n_states

(***************************************************************************)
(* C10: every executed step adds exactly 1 to the step counter, the step   *)
(* that enters the halt state included, so the counter is the number of    *)
(* transitions executed, and tm_run_step returns 1 exactly on the step     *)
(* that halts the machine.                                                 *)
(***************************************************************************)
C10_EveryStepCounted ==
    last.calls > 0 =>
        /\ run.steps = last.done
        /\ fault = "none" => (last.step_ret = 1 <=> run.state >= def.n_states)

\* the six steps of 1RB1LB_1LA1RZ, the last one into the halt state
C10_Witness ==
    /\ last.calls > 0
    /\ fault = "none"
    /\ run.state >= def.n_states
    /\ last.step_ret = 1
    /\ run.steps = 6

(***************************************************************************)
(* C8: for every capacity and every width 1..BLOCK_BITS, after any writes  *)
(* of values below 2^sym_bits into the cleared buffer, no write has been   *)
(* refused and reading any cell returns the value last written to it, 0 if *)
(* it was never written - also for a symbol that straddles two blocks or   *)
(* ends on the boundary of a block.                                        *)
(***************************************************************************)
C8_BitReadsLastWritten ==
    bit # NoTape =>
        /\ fault # "assert"
        /\ fault = "none" =>
               \A i \in 0..(bit.n_syms - 1) :
                   BitTapeReadAt(bit, i, build) = BitRet("none", ref.cells[i])

(***************************************************************************)
(* The text format as the claims read it: rows of three-character cells    *)
(* separated by '_', every row as wide as the first.                       *)
(***************************************************************************)
\* the pieces of t between the separators sep
RECURSIVE Split(_, _)
Split(t, sep) ==
    IF \A p \in 1..Len(t) : t[p] # sep THEN <<t>>
    ELSE LET p == CHOOSE i \in 1..Len(t) : t[i] = sep /\ \A j \in 1..(i - 1) : t[j] # sep
         IN  <<SubSeq(t, 1, p - 1)>> \o Split(SubSeq(t, p + 1, Len(t)), sep)

GridRows(t) == Split(t, Ascii["_"])
GridCols(t) == Len(GridRows(t)[1]) \div 3

\* the three characters of cell s (from 0) of a row
GridCell(row, s) == SubSeq(row, 3 * s + 1, 3 * s + 3)

IsUndefCell(cell) == cell = Cell("-", "-", "-")

\* a cell is --- or starts with a digit below n_syms and a direction
CellOnGrid(cell, n_syms) ==
    \/ IsUndefCell(cell)
    \/ /\ cell[1] >= Ascii["0"] /\ cell[1] <= Ascii["9"] /\ cell[1] - Ascii["0"] < n_syms
       /\ cell[2] \in {Ascii["L"], Ascii["R"]}

OnGrid(t) ==
    /\ Len(t) > 0
    /\ Len(GridRows(t)[1]) % 3 = 0
    /\ GridCols(t) >= 1
    /\ \A q \in 1..Len(GridRows(t)) :
           /\ Len(GridRows(t)[q]) = 3 * GridCols(t)
           /\ \A s \in 0..(GridCols(t) - 1) :
                  CellOnGrid(GridCell(GridRows(t)[q], s), GridCols(t))

\* on the grid, and the third character of every cell but --- is a letter
WellFormed(t) ==
    /\ OnGrid(t)
    /\ \A q \in 1..Len(GridRows(t)) : \A s \in 0..(GridCols(t) - 1) :
           LET cell == GridCell(GridRows(t)[q], s)
           IN  IsUndefCell(cell) \/ (cell[3] >= Ascii["A"] /\ cell[3] <= Ascii["Z"])

(***************************************************************************)
(* C11: tm_def_parse ends in a fatal error, and returns no table, for      *)
(* every text that is off the grid: empty, a first row whose width is not  *)
(* a multiple of 3, a cell that starts with anything but a digit below     *)
(* n_syms (unless it is ---), a direction other than L or R, a missing _,  *)
(* a short or extra row, a trailing character.                             *)
(***************************************************************************)
C11_DeviationIsFatal ==
    (last.op = "tm_def_parse" /\ ~OnGrid(txt)) => fault # "none"

(***************************************************************************)
(* C12: for a well-formed text of R rows of C cells tm_def_parse returns a *)
(* table with n_syms = C and n_states = R, and tm_def_lookup(q, s) returns *)
(* for the cell <d><L|R><letter> of row q, column s the symbol d, LEFT for *)
(* L and RIGHT for R, and the state letter - 'A'.                          *)
(***************************************************************************)
C12_ParsedTableMatchesText ==
    (last.op = "tm_def_parse" /\ WellFormed(txt)) =>
        /\ fault = "none"
        /\ def.n_syms = GridCols(txt)
        /\ def.n_states = Len(GridRows(txt))
        /\ \A q \in 0..(def.n_states - 1) : \A s \in 0..(def.n_syms - 1) :
               LET cell == GridCell(GridRows(txt)[q + 1], s)
               IN  ~IsUndefCell(cell) =>
                       TmDefLookupPacked(def, q, s, heap) =
                           LookupOut("none",
                               Instr(cell[1] - Ascii["0"],
                                     IF cell[2] = Ascii["L"] THEN DIR_LEFT ELSE DIR_RIGHT,
                                     cell[3] - Ascii["A"]))

(***************************************************************************)
(* C13: in a table of any size the format allows, a cell written --- is    *)
(* stored with a next state >= n_states, so that taking it halts.          *)
(***************************************************************************)
C13_UndefinedCellHalts ==
    (last.op = "tm_def_parse" /\ fault = "none" /\ WellFormed(txt)) =>
        \A q \in 0..(def.n_states - 1) : \A s \in 0..(def.n_syms - 1) :
            IsUndefCell(GridCell(GridRows(txt)[q + 1], s)) =>
                TmDefLookupPacked(def, q, s, heap).instr.state >= def.n_states

(***************************************************************************)
(* C14: a cell whose state letter is H or Z is stored with a next state    *)
(* >= n_states, whatever the number of states.                             *)
(***************************************************************************)
C14_HaltLettersHalt ==
    (last.op = "tm_def_parse" /\ fault = "none" /\ WellFormed(txt)) =>
        \A q \in 0..(def.n_states - 1) : \A s \in 0..(def.n_syms - 1) :
            LET cell == GridCell(GridRows(txt)[q + 1], s)
            IN  (~IsUndefCell(cell) /\ cell[3] \in {Ascii["H"], Ascii["Z"]}) =>
                    TmDefLookupPacked(def, q, s, heap).instr.state >= def.n_states

(***************************************************************************)
(* C15: for a text of digits, L or R and letters only, what tm_def_print   *)
(* writes for the parsed table is the text again once the header line, the *)
(* row labels, the blanks and the line breaks are taken away.              *)
(***************************************************************************)
\* no cell of the text is ---
Canonical(t) ==
    /\ WellFormed(t)
    /\ \A q \in 1..Len(GridRows(t)) : \A s \in 0..(GridCols(t) - 1) :
           ~IsUndefCell(GridCell(GridRows(t)[q], s))

\* the printed table without its header line, row labels and white space
PrintedProgram(chars) ==
    LET lines == Split(chars, Ascii["\n"])
        body == SelectSeq(SubSeq(lines, 2, Len(lines)), LAMBDA l : Len(l) > 0)
        cells == [q \in 1..Len(body) |->
                      SelectSeq(SubSeq(body[q], 3, Len(body[q])), LAMBDA c : c # Ascii[" "])]
    IN  JoinRows(cells)

C15_PrintParseRoundTrip ==
    (last.op = "tm_def_print" /\ last.ret = 0 /\ fault = "none" /\ Canonical(txt)) =>
        PrintedProgram(out) = txt

(***************************************************************************)
(* What a macro instruction is meant to record: the base machine run on    *)
(* the cells 1..scale alone, from the entry cell, until it halts or the    *)
(* head leaves the cells.                                                  *)
(***************************************************************************)
WindowOut(kind, q, cells) == [kind |-> kind, q |-> q, cells |-> cells]

RECURSIVE WindowRun(_, _, _, _, _, _)
WindowRun(d, scale, q, p, cells, fuel) ==
    IF q >= d.n_states THEN WindowOut("halt", q, cells)
    ELSE IF p < 1 THEN WindowOut("left", q, cells)
    ELSE IF p > scale THEN WindowOut("right", q, cells)
    ELSE IF fuel = 0 THEN WindowOut("loop", q, cells)
    ELSE LET instr == TmDefLookup(d, q, cells[p])
         IN  WindowRun(d, scale, instr.state,
                       IF instr.dir = DIR_LEFT THEN p - 1 ELSE p + 1,
                       [cells EXCEPT ![p] = instr.sym], fuel - 1)

\* the k cells a macro symbol stands for, cell 1 in the highest bit
Unpack(scale, mm_sym) == [j \in 1..scale |-> BitOf(mm_sym, scale - j)]

RECURSIVE Pack(_, _, _)
Pack(cells, scale, j) ==
    IF j > scale THEN 0 ELSE cells[j] * 2 ^ (scale - j) + Pack(cells, scale, j + 1)

\* the run a macro instruction for (mm_state, mm_sym) stands for; the base
\* machine has no more than n_states * scale * 2^scale configurations on
\* the cells, so a run that takes more steps never ends
Expected(d, scale, mm_state, mm_sym) ==
    WindowRun(d, scale, mm_state \div 2,
              IF mm_state % 2 = DIR_LEFT THEN scale ELSE 1,
              Unpack(scale, mm_sym),
              d.n_states * scale * 2 ^ scale)

ExitDir(kind) == IF kind = "left" THEN DIR_LEFT ELSE DIR_RIGHT

(***************************************************************************)
(* C16: the next state mm_determine_instr records is a halt state (at      *)
(* least 2S) when the base machine halts on the cells 1..k, and otherwise  *)
(* (q << 1) | exit_dir for the base state q and the side at the moment the *)
(* head first leaves the cells, and the recorded direction is exit_dir.    *)
(***************************************************************************)
C16_MacroNextState ==
    last.op = "mm_determine_instr" =>
        LET r == Expected(def, mm.scale, mm.of_state, mm.of_sym)
        IN  /\ r.kind = "halt" => mm.instr.state >= 2 * def.n_states
            /\ r.kind \in {"left", "right"} =>
                   /\ mm.instr.state = r.q * 2 + ExitDir(r.kind)
                   /\ mm.instr.dir = ExitDir(r.kind)

(***************************************************************************)
(* C17: the write symbol mm_determine_instr records is the packing of the  *)
(* k cells, cell 1 in the highest of the k bits and no other bit set, as   *)
(* they are when the base machine halts or first leaves the cells.         *)
(***************************************************************************)
C17_MacroWriteSymbol ==
    last.op = "mm_determine_instr" =>
        LET r == Expected(def, mm.scale, mm.of_state, mm.of_sym)
        IN  r.kind # "loop" => mm.instr.sym = Pack(r.cells, mm.scale, 1)

(***************************************************************************)
(* C19: mm_determine_instr terminates for every base machine, scale, macro *)
(* state and macro symbol: a call that is in its loop eventually returns   *)
(* its instruction or ends in a failure.                                   *)
(***************************************************************************)
C19_DetermineInstrTerminates ==
    (mm.pc = "loop" /\ mm.passes > 0)
        ~> (fault # "none" \/ mm.pc = "done" \/ mm.passes = 0)

(***************************************************************************)
(* C20: tm_def_to_mm_def(M, k) for a base machine with 2 symbols and S     *)
(* states returns a table with exactly 2^k symbols and 2S states in which  *)
(* an instruction has been stored for every (macro state, macro symbol)    *)
(* pair, and a base machine whose n_syms is not 2 is rejected with a fatal *)
(* error.  The call of a 2-symbol machine therefore ends in no failure,    *)
(* and the table it returns has the sizes and a stored symbol in each slot.*)
(***************************************************************************)
C20_MacroTableComplete ==
    last.op # "init" =>
        IF def.n_syms # 2 THEN fault = "error"
        ELSE /\ fault = "none"
             /\ mm.pc = "done" =>
                    /\ mm.mm_def.n_syms = 2 ^ mm.scale
                    /\ mm.mm_def.n_states = 2 * def.n_states
                    /\ \A state \in 0..(mm.mm_def.n_states - 1), sym \in 0..(mm.mm_def.n_syms - 1) :
                           mm.mm_def.sym_tab[state * mm.mm_def.n_syms + sym] < mm.mm_def.n_syms

(***************************************************************************)
(* The base machine run from the blank tape.  A tape of a 2-symbol machine *)
(* is the set of the positions that hold 1; the head starts at position 0. *)
(***************************************************************************)
MaxBaseSteps == 8

BaseConf(q, pos, ones) == [q |-> q, pos |-> pos, ones |-> ones]

BaseStep(d, c) ==
    LET instr == TmDefLookup(d, c.q, IF c.pos \in c.ones THEN 1 ELSE 0)
    IN  BaseConf(instr.state,
                 IF instr.dir = DIR_LEFT THEN c.pos - 1 ELSE c.pos + 1,
                 IF instr.sym = 1 THEN c.ones \cup {c.pos} ELSE c.ones \ {c.pos})

\* the configurations of the base machine, up to its halt or n steps
RECURSIVE BaseTrace(_, _, _)
BaseTrace(d, c, n) ==
    IF n = 0 \/ c.q >= d.n_states THEN <<c>>
    ELSE <<c>> \o BaseTrace(d, BaseStep(d, c), n - 1)

BaseRun(d) == BaseTrace(d, BaseConf(0, 0, {}), MaxBaseSteps)

\* the base machine halts within MaxBaseSteps steps, so BaseRun(d) holds
\* every configuration it ever has
BaseHalts(d) == BaseRun(d)[Len(BaseRun(d))].q >= d.n_states

\* the macro tape unpacked: macro cell P stands for the base cells
\* P * scale - (scale - 1) .. P * scale, the macro machine starting (state 0,
\* moving left) on the last base cell of macro cell 0
UnpackedOnes(t, scale) ==
    UNION {{P * scale + (j - scale) : j \in {j \in 1..scale : BitOf(RleSymAt(t, P), scale - j) = 1}} :
               P \in Positions}

(***************************************************************************)
(* C18: the macro machine built by tm_def_to_mm_def(M, k), run from the    *)
(* blank tape, simulates M run from the blank tape: after each macro step  *)
(* the macro tape unpacked into k base cells per macro cell, with the      *)
(* base-state part of the macro state, is M's tape and state at some step  *)
(* of M (a macro state that halts standing for a halted M).  Stated for    *)
(* the machines M that halt within MaxBaseSteps steps, whose               *)
(* configurations are all in BaseRun(M).                                   *)
(***************************************************************************)
C18_MacroRunSimulatesBase ==
    (mm.pc = "run" /\ run.steps > 0 /\ BaseHalts(def)) =>
        \E i \in 1..Len(BaseRun(def)) :
            /\ BaseRun(def)[i].ones = UnpackedOnes(rle, mm.scale)
            /\ BaseRun(def)[i].q = run.state \div 2

(***************************************************************************)
(* What two tapes hold: the symbol at a relative position, 0 where a tape  *)
(* has no cell; the positions looked at cover the flat buffer and the      *)
(* chain of the RLE tape.                                                  *)
(***************************************************************************)
FlatSymAt(t, p) ==
    IF 0 <= p + t.init_pos /\ p + t.init_pos < t.len THEN t.syms[p + t.init_pos] ELSE 0

CmpRange(ft) == (0 - (ft.len + MaxPos + 1))..(ft.len + MaxPos + 1)

DiffAt(rt, ft) == {p \in CmpRange(ft) : RleSymAt(rt, p) # FlatSymAt(ft, p)}

TapesSame(rt, ft) == rt.rel_pos = ft.rel_pos /\ DiffAt(rt, ft) = {}

(***************************************************************************)
(* C21: tm_mixed_tape_cmp(rle, flat) returns TAPES_EQUAL exactly when the  *)
(* two tapes have the same head position and hold the same symbol at every *)
(* relative position, a cell a tape does not have counting as 0, also when *)
(* the RLE chain reaches beyond the flat buffer or the flat buffer beyond   *)
(* the chain.                                                              *)
(***************************************************************************)
C21_MixedCmpEqualIffSame ==
    last.op = "tm_mixed_tape_cmp" =>
        /\ fault = "none"
        /\ last.ret = TAPES_EQUAL <=> TapesSame(rle, flat)

\* the differing position closest to the head on the left, head cell
\* included, if there is one, else the closest on the right
FirstDiff(rt, ft) ==
    LET d == DiffAt(rt, ft)
        l == {p \in d : p <= ft.rel_pos}
    IN  IF l # {} THEN CHOOSE p \in l : \A q \in l : q <= p
        ELSE CHOOSE p \in d : \A q \in d : p <= q

(***************************************************************************)
(* C22: tm_mixed_tape_cmp returns TAPES_DIFF_HEAD exactly when the two     *)
(* rel_pos differ; when the heads agree and the contents differ it returns *)
(* a position where the tapes really differ: the differing position        *)
(* closest to the head on the left (head cell included) if there is one,   *)
(* else the differing position closest to the head on the right.           *)
(***************************************************************************)
C22_MixedCmpReportsFirstDiff ==
    last.op = "tm_mixed_tape_cmp" =>
        /\ fault = "none"
        /\ last.ret = TAPES_DIFF_HEAD <=> rle.rel_pos # flat.rel_pos
        /\ (rle.rel_pos = flat.rel_pos /\ DiffAt(rle, flat) # {}) =>
               last.ret = FirstDiff(rle, flat)

\* the positions where two flat tapes, or two RLE tapes, differ
FlatDiffAt(ta, tb) ==
    {p \in CmpRange(ta) \cup CmpRange(tb) : FlatSymAt(ta, p) # FlatSymAt(tb, p)}

RleDiffAt(ta, tb) ==
    {p \in (0 - (MaxPos + 2))..(MaxPos + 2) : RleSymAt(ta, p) # RleSymAt(tb, p)}

\* what a comparison may return for tapes with the given difference
CmpAnswers(ret, same_head, diff) ==
    /\ ret = TAPES_EQUAL <=> (same_head /\ diff = {})
    /\ ret # TAPES_EQUAL => (ret = TAPES_DIFF_HEAD \/ ret \in diff)

(***************************************************************************)
(* C23: tm_flat_tape_cmp (two flat tapes) and tm_rle_tape_cmp (two RLE     *)
(* tapes) return TAPES_EQUAL if and only if the two tapes have the same    *)
(* head position and agree on every position, and otherwise return         *)
(* TAPES_DIFF_HEAD or a position where they differ.                        *)
(***************************************************************************)
C23_SameKindCmp ==
    /\ last.op = "tm_flat_tape_cmp" =>
           /\ fault = "none"
           /\ CmpAnswers(last.ret, flat.rel_pos = tape_b.rel_pos, FlatDiffAt(flat, tape_b))
    /\ last.op = "tm_rle_tape_cmp" =>
           /\ fault = "none"
           /\ CmpAnswers(last.ret, rle.rel_pos = tape_b.rel_pos, RleDiffAt(rle, tape_b))

\* the table of end-to-end scenarios: the steps to halt and the non-zero
\* cells at halt of each test program, in the order of TestOrder
TestOrder ==
    <<Def(3, 2, <<Instr(1, DIR_RIGHT, 1), Instr(2, DIR_LEFT, 1), Instr(1, DIR_RIGHT, STATE_UNDEF),
                  Instr(2, DIR_LEFT, 0), Instr(2, DIR_RIGHT, 1), Instr(1, DIR_LEFT, 1)>>),
      Def(2, 3, <<Instr(1, DIR_RIGHT, 1), Instr(1, DIR_RIGHT, STATE_UNDEF),
                  Instr(1, DIR_LEFT, 1), Instr(0, DIR_RIGHT, 2),
                  Instr(1, DIR_LEFT, 2), Instr(1, DIR_LEFT, 0)>>),
      Def(2, 3, <<Instr(1, DIR_RIGHT, 1), Instr(1, DIR_RIGHT, STATE_UNDEF),
                  Instr(0, DIR_RIGHT, 2), Instr(0, DIR_LEFT, STATE_UNDEF),
                  Instr(1, DIR_LEFT, 2), Instr(0, DIR_LEFT, 0)>>)>>
HaltSteps == <<38, 21, 17>>
HaltNonzero == <<9, 5, 4>>

\* the run of test program i is as the table says: it has not faulted, has
\* not passed the step count of the table, and once halted shows that count
\* and that many non-zero cells on every tape attached
ScenarioHolds(i) ==
    /\ fault = "none"
    /\ run.steps <= HaltSteps[i]
    /\ TmRunHalted(def, run) =>
           /\ run.steps = HaltSteps[i]
           /\ rle # NoTape => RleCountNonzero(rle) = HaltNonzero[i]
           /\ flat # NoTape => FlatTapeCountNonzero(flat) = HaltNonzero[i]

\* C24: from the blank tape in state A at position 0 the three test programs
\* halt after exactly 38, 21 and 17 steps with 9, 5 and 4 non-zero cells,
\* whichever tape backend is attached
C24_EndToEndScenarios ==
    \A i \in 1..3 : def = TestOrder[i] => ScenarioHolds(i)

\* the head of the bit tape is on a cell of its buffer
BitHeadInside(t) == 0 <= t.rel_pos + t.init_pos /\ t.rel_pos + t.init_pos < t.n_syms

\* C25: a bit_tape_move that takes rel_pos + init_pos outside [0, n_syms)
\* ends in a fatal error (and only such a move does); the tape never grows;
\* no bit_tape_read or bit_tape_write is performed at a symbol index outside
\* [0, n_syms)
C25_BitTapeMoveFatalOutside ==
    [][/\ bit'.n_syms = bit.n_syms
       /\ DOMAIN bit'.blocks = DOMAIN bit.blocks
       /\ bit'.rel_pos # bit.rel_pos => (fault' = "error" <=> ~BitHeadInside(bit'))
       /\ last'.op \in {"bit_tape_read", "bit_tape_write"} => BitHeadInside(bit)]_vars

\* a move off the buffer has ended in the fatal error
C25_Witness ==
    /\ last.op = "bit_tape_move"
    /\ fault = "error"
    /\ ~BitHeadInside(bit)

\* the number of cells of the chain that lie left of the head cell
RleHeadIndex(t) == RleBefore(t.elems, RleChain(t), t.curr) + t.rle_pos

\* the number of cells the chain stands for
RleCells(t) == Len(RleExpand(t.elems, RleChain(t)))

\* every segment has a positive length and the head offset lies inside curr
RleLensSound(t) ==
    /\ \A a \in LiveElems(t.elems) : t.elems[a].len >= 1
    /\ t.curr \in LiveElems(t.elems)
    /\ 0 <= t.rle_pos /\ t.rle_pos < t.elems[t.curr].len

\* curr and rle_pos follow the head: a write leaves the head cell where it is
\* in the chain, a move takes it to the neighbour cell, a new cell being
\* added where the chain ends
RleHeadFollows(t, u) ==
    LET delta == u.rel_pos - t.rel_pos
    IN  IF delta = 0
        THEN RleCells(u) = RleCells(t) /\ RleHeadIndex(u) = RleHeadIndex(t)
        ELSE IF delta = -1 /\ RleHeadIndex(t) = 0
        THEN RleCells(u) = RleCells(t) + 1 /\ RleHeadIndex(u) = 0
        ELSE IF delta = 1 /\ RleHeadIndex(t) = RleCells(t) - 1
        THEN RleCells(u) = RleCells(t) + 1 /\ RleHeadIndex(u) = RleCells(t)
        ELSE RleCells(u) = RleCells(t) /\ RleHeadIndex(u) = RleHeadIndex(t) + delta

\* C26: after any sequence of writes and moves every segment of the chain
\* has len >= 1 and 0 <= rle_pos < curr.len, curr being the segment that
\* contains the head cell
C26_RleSegmentsAndOffset ==
    [][RleLensSound(rle) /\ RleLensSound(rle') /\ RleHeadFollows(rle, rle')]_vars

\* the head has moved left into a segment of more than one cell
C26_Witness ==
    /\ rle # NoTape /\ flat = NoTape
    /\ last.op = "rle_tape_move"
    /\ rle.elems[rle.curr].len >= 2
    /\ rle.elems[rle.curr].right # NULL
    /\ rle.rle_pos = rle.elems[rle.curr].len - 1

\* C27: the chain is mutually consistent (x.right.left = x and x.left.right
\* = x where the neighbour exists) and acyclic: the links from curr reach
\* NULL without a segment met twice
C27_RleChainConsistent ==
    rle # NoTape =>
        LET h  == rle.elems
            lw == WalkRight([a \in 1..MaxElems |-> [right |-> h[a].left]], rle.curr, MaxElems + 1)
            rw == WalkRight(h, rle.curr, MaxElems + 1)
        IN  /\ rle.curr \in LiveElems(h)
            /\ \A x \in LiveElems(h) :
                   /\ h[x].right # NULL => h[x].right \in LiveElems(h) /\ h[h[x].right].left = x
                   /\ h[x].left # NULL => h[x].left \in LiveElems(h) /\ h[h[x].left].right = x
            /\ Len(lw) <= MaxElems /\ Len(rw) <= MaxElems
            /\ \A i, j \in 1..Len(lw) : lw[i] = lw[j] => i = j
            /\ \A i, j \in 1..Len(rw) : rw[i] = rw[j] => i = j

\* a split has put a segment between two others
C27_Witness ==
    /\ rle # NoTape /\ flat = NoTape
    /\ last.op = "rle_tape_write"
    /\ rle.elems[rle.curr].left # NULL
    /\ rle.elems[rle.curr].right # NULL

\* the number of cells of the RLE tape that hold a non-zero symbol
RleNonzeroCells(t) ==
    LET cells == RleExpand(t.elems, RleChain(t))
    IN  Cardinality({i \in 1..Len(cells) : cells[i] # 0})

\* C29: at any point of a run rle_count_nonzero and flat_tape_count_nonzero
\* each return the number of cells that hold a non-zero symbol, each cell
\* counted once, so the counts of an RLE tape and a flat tape driven in
\* lockstep are equal
C29_NonzeroCounts ==
    fault = "none" =>
        /\ rle # NoTape => RleCountNonzero(rle) = RleNonzeroCells(rle)
        /\ rle # NoTape /\ flat # NoTape =>
               FlatTapeCountNonzero(flat) = RleNonzeroCells(rle)

\* the bits the buffer holds for symbol j, as positions 0..sym_bits-1
CellBits(t, j) ==
    {k \in 0..(t.sym_bits - 1) :
        ((j * t.sym_bits + k) % BLOCK_BITS) \in t.blocks[(j * t.sym_bits + k) \div BLOCK_BITS]}

\* C30: a write of symbol i into the bit-packed buffer changes only symbol
\* i: every other symbol j in [0, N) holds the same bits and reads the same
\* before and after, also when symbol i straddles two words or ends on a
\* word boundary
C30_BitWriteOnlyItsSymbol ==
    [][last'.op = "bit_tape_write" /\ fault' = "none" =>
           \A j \in 0..(bit.n_syms - 1) :
               j # bit.init_pos + bit.rel_pos =>
                   /\ CellBits(bit', j) = CellBits(bit, j)
                   /\ BitTapeReadAt(bit', j, build) = BitTapeReadAt(bit, j, build)]_vars

\* a non-zero symbol was written across a word boundary next to a non-zero
\* symbol
C30_Witness ==
    /\ last.op = "bit_tape_write"
    /\ fault = "none"
    /\ bit.sym_bits = 60
    /\ bit.init_pos + bit.rel_pos = 1
    /\ CellBits(bit, 0) # {}
    /\ \E k \in CellBits(bit, 1) : k >= 4

\* the direction letter of the cell (state, sym) of the program text
DirCharOf(state, sym) == CharAt(txt, state * (def.n_syms * 3 + 1) + sym * 3 + 1)

\* LEFT is encoded as 0 and RIGHT as 1
DirCode(c) == IF c = Ascii["L"] THEN 0 ELSE 1

\* the directions the table gives back for the cell (state, sym)
DirStored(state, sym) ==
    IF call.pc = "tm_def"
    THEN {TmDefLookupPacked(def, state, sym, heap).instr.dir}
    ELSE {TableLookup(def, state, sym, build, heap, past).action.o_dir : past \in PastWords}

\* every cell with a direction letter is stored with the code of its letter
DirsAsEncoded ==
    call.pc \in {"tm_def", "table"} /\ fault = "none" =>
        \A state \in 0..(def.n_states - 1) : \A sym \in 0..(def.n_syms - 1) :
            DirCharOf(state, sym) \in {Ascii["L"], Ascii["R"]} =>
                DirStored(state, sym) = {DirCode(DirCharOf(state, sym))}

\* the head position, the state and the symbol under the head of the run
DirHead == IF call.pc = "tm_def" THEN rle.rel_pos ELSE run.curr_pos
DirState == IF call.pc = "tm_def" THEN run.state ELSE run.curr_state
DirSymRead ==
    IF call.pc = "tm_def" THEN RleTapeRead(rle)
    ELSE BlockValue(TapeRead(bit, run.curr_pos, build, "slack", {}).unit)

\* C28: everywhere a direction is stored or decoded LEFT is encoded as 0
\* and RIGHT as 1, and the head moves by +1 for RIGHT and by -1 for LEFT
C28_DirectionEncoding ==
    [][/\ DirsAsEncoded'
       /\ call.pc \in {"tm_def", "table"} /\ fault' = "none" /\ DirHead' # DirHead =>
              DirHead' - DirHead =
                  (IF DirCharOf(DirState, DirSymRead) = Ascii["R"] THEN 1 ELSE -1)]_vars

(***************************************************************************)
(* Storing into and looking up from the transition tables (SpecTab).       *)
(***************************************************************************)
\* every slot of the table but (state, sym)
OtherSlots(d, state, sym) ==
    {p \in (0..(d.n_states - 1)) \X (0..(d.n_syms - 1)) : p # <<state, sym>>}

\* C31: after an instruction is stored at slot (q, s) of a transition table,
\* the lookup of (q, s) returns its symbol, next state and direction, and the
\* lookup of every other slot returns what it returned before the store, in
\* the tables of tm_def_store / tm_def_lookup and in the bit array table of
\* table_store / table_lookup
C31_StoreThenLookup ==
    [][/\ last'.op = "tm_def_store" /\ fault' = "none" =>
              /\ TmDefLookupPacked(def', run'.state, run'.sym, heap)
                     = LookupOut("none", run'.instr)
              /\ \A p \in OtherSlots(def, run'.state, run'.sym) :
                     TmDefLookupPacked(def', p[1], p[2], heap)
                         = TmDefLookupPacked(def, p[1], p[2], heap)
       /\ last'.op = "table_store" /\ fault' = "none" =>
              \A past \in PastWords :
                  /\ TableLookup(def', run'.state, run'.sym, build, heap, past)
                         = ActionRet("none", run'.instr)
                  /\ \A p \in OtherSlots(def, run'.state, run'.sym) :
                         TableLookup(def', p[1], p[2], build, heap, past)
                             = TableLookup(def, p[1], p[2], build, heap, past)]_vars

\* the last slot of the 65-slot table, whose direction bit is bit 0 of
\* dir_tab[1], was stored with direction RIGHT after slot 60 of dir_tab[0]
C31_Witness ==
    /\ last.op = "tm_def_store"
    /\ fault = "none"
    /\ call.steps = MaxStores
    /\ def.n_syms = 5
    /\ run.state = 12 /\ run.sym = 4 /\ run.instr.dir = DIR_RIGHT
    /\ TmDefLookupPacked(def, 12, 0, heap) = LookupOut("none", Instr(4, DIR_RIGHT, 12))

\* the action machine_step looks up for the state and the symbol under the
\* head
DirLooked ==
    TableLookup(def, run.curr_state,
                BlockValue(TapeRead(bit, run.curr_pos, build, "slack", {}).unit),
                build, "slack", {}).action

\* C32: every step machine_step counts writes the symbol of the looked-up
\* instruction at the head and moves the head by one cell, the step that
\* enters the halt state included
C32_CountedStepWritesAndMoves ==
    [][last'.op = "machine_step" /\ fault' = "none"
           /\ run'.curr_step = run.curr_step + 1 =>
               /\ TapeRead(bit', run.curr_pos, build, "slack", {})
                      = UnitRet("none", ToBlock(DirLooked.o_sym))
               /\ run'.curr_pos - run.curr_pos \in {-1, 1}]_vars

\* C33: the direction table of tm_def_init holds a direction bit for every
\* slot: for every idx < n_states * n_syms the word idx / 64 that
\* tm_def_store writes and tm_def_lookup reads lies inside the allocated
\* dir_tab
C33_DirTabHoldsEverySlot ==
    [][last'.op \in {"tm_def_store", "tm_def_lookup"}
           /\ run'.state < def.n_states /\ run'.sym < def.n_syms =>
               DirWordInside(def, (run'.state * def.n_syms + run'.sym)
                                      \div DIR_TAB_BITS_PER_FIELD)]_vars

\* C34: every word a read or a write of symbol i in [0, N) of the bit array
\* touches has an index below the number of words allocated for the buffer,
\* for every N and every width W, also when the last symbol ends on a word
\* boundary, and the highest of them is word ((i + 1) * W - 1) / B
C34_WordsInsideBuffer ==
    [][last'.op \in {"tape_read", "tape_write"} =>
           /\ \A u \in TapeUnits(bit, run'.sym_idx) : u < NUnits(bit.n_syms, bit.sym_bits)
           /\ \A u \in TapeUnits(bit, run'.sym_idx) :
                  u <= ((run'.sym_idx + 1) * bit.sym_bits - 1) \div BLOCK_BITS]_vars

\* the ceiling of log2(n): the least k with n <= 2^k
CeilingOfLog2(n) == CHOOSE k \in 0..n : n <= 2 ^ k /\ \A j \in 0..(k - 1) : 2 ^ j < n

\* C35: for every n_syms >= 2 the symbol width computed for the tapes of a
\* run equals the ceiling of log2(n_syms); it is at least 1 and every symbol
\* in [0, n_syms) fits in that many bits
C35_WidthIsCeilLog2 ==
    last.op \in {"tm_run_init", "verify_test_case"} /\ fault = "none" /\ def.n_syms >= 2 =>
        /\ last.ret = CeilingOfLog2(def.n_syms)
        /\ last.ret >= 1
        /\ def.n_syms - 1 < 2 ^ last.ret

\* the buffer position of the head of a flat tape
MemPos(ft) == ft.rel_pos + ft.init_pos

\* the buffer positions at which one pass through the loop of
\* mm_determine_instr calls tm_run_step on slow_run and on fast_run
MmStepHeads(d, scale, mm_in_dir, slow, fast) ==
    LET a == MmSlowPart(d, scale, mm_in_dir, slow, fast)
        b == MmThenFast(d, scale, mm_in_dir, a)
        c == MmThenFast(d, scale, mm_in_dir, b)
    IN  (IF ~a.exit THEN {MemPos(slow.flat)} ELSE {})
            \cup (IF ~a.exit /\ a.fault = "none" /\ ~b.exit THEN {MemPos(a.fast.flat)} ELSE {})
            \cup (IF ~b.exit /\ b.fault = "none" /\ ~c.exit THEN {MemPos(b.fast.flat)} ELSE {})

\* C36: during mm_determine_instr neither inner simulation executes a step
\* with its head on a guard cell (buffer positions 0 and k + 1), both runs
\* use the same escape test (LEFT at position 0, RIGHT at position k + 1),
\* and the inner flat tapes keep the length k + 2
C36_GuardCellsNeverStepped ==
    [][mm.pc = "loop" /\ fault = "none" =>
           /\ MmStepHeads(def, mm.scale, mm.state % 2, mm.slow, mm.fast) \subseteq 1..mm.scale
           /\ \A sim \in {mm.slow, mm.fast} :
                  /\ FastRanOffLeft(mm.scale, mm.state % 2, sim.flat.rel_pos)
                         = SlowRanOffLeft(mm.scale, mm.state % 2, sim.flat.rel_pos)
                  /\ FastRanOffRight(mm.scale, mm.state % 2, sim.flat.rel_pos)
                         = SlowRanOffRight(mm.scale, mm.state % 2, sim.flat.rel_pos)
                  /\ SlowRanOffLeft(mm.scale, mm.state % 2, sim.flat.rel_pos)
                         = (MemPos(sim.flat) = 0)
                  /\ SlowRanOffRight(mm.scale, mm.state % 2, sim.flat.rel_pos)
                         = (MemPos(sim.flat) = mm.scale + 1)
           /\ \E o \in {MmLoopBody(def, mm.scale, mm.state % 2, mm.slow, mm.fast)} :
                  o.slow.flat.len = mm.scale + 2 /\ o.fast.flat.len = mm.scale + 2]_vars

\* C37: tm_def_parse treats a cell whose third character is NUL or any
\* other byte that is not a letter A..Z as a fatal parse error; a text on
\* the grid with such a cell yields no table
C37_NonLetterStateIsFatal ==
    last.op = "tm_def_parse" /\ OnGrid(txt) /\ ~WellFormed(txt) => fault = "error"

\* the positions a head may take
HeadRange(p) == INT_MIN + 2 <= p /\ p <= INT_MAX - 2

RECURSIVE LensLeft(_, _, _)
\* the number of cells of the segments to the left of e
LensLeft(h, e, fuel) ==
    IF h[e].left = NULL \/ fuel = 0 THEN 0
    ELSE h[h[e].left].len + LensLeft(h, h[e].left, fuel - 1)

RECURSIVE LensRight(_, _, _)
\* the number of cells of the segments to the right of e
LensRight(h, e, fuel) ==
    IF h[e].right = NULL \/ fuel = 0 THEN 0
    ELSE h[h[e].right].len + LensRight(h, h[e].right, fuel - 1)

\* the positions of the leftmost and of the rightmost cell a tape holds
EdgeCells ==
    IF rle # NoTape
    THEN {rle.rel_pos - rle.rle_pos - LensLeft(rle.elems, rle.curr, MaxElems),
          rle.rel_pos + (rle.elems[rle.curr].len - 1 - rle.rle_pos)
              + LensRight(rle.elems, rle.curr, MaxElems)}
    ELSE {0 - flat.init_pos, flat.len - 1 - flat.init_pos}

\* the position of the head of the tape
EdgeHead == IF rle # NoTape THEN rle.rel_pos ELSE flat.rel_pos

\* in every state the head and every cell are off the sentinels, and the
\* head is in its range
EdgeInRange ==
    /\ HeadRange(EdgeHead)
    /\ \A p \in EdgeCells \cup {EdgeHead} : p # TAPES_EQUAL /\ p # TAPES_DIFF_HEAD

\* a move that would leave the range fails an assertion and leaves rel_pos,
\* any other move changes rel_pos by delta
EdgeMoveChecked ==
    last'.op \in {"rle_tape_move", "flat_tape_move"} =>
        IF HeadRange(EdgeHead + last'.ret)
        THEN fault' = "none" /\ EdgeHead' = EdgeHead + last'.ret
        ELSE fault' = "assert" /\ EdgeHead' = EdgeHead

AttachedTapes == {name \in {"flat_tape", "rle_tape", "bit_tape"} : TapeOf(name) # NoTape}

\* C39: with comparison enabled, after every batch of steps each pair of
\* attached tapes (flat with RLE, RLE with bit, bit with flat) has been
\* compared with one another, only attached tapes are passed to the
\* comparison, and a reported mismatch stops the run
C39_EveryAttachedPairCompared ==
    last.op = "verify_batch" /\ run.flags.compare = 1 =>
        /\ \A i \in 1..Len(out) : {out[i].t1, out[i].t2} \subseteq AttachedTapes
        /\ fault = "none" =>
               \A a \in AttachedTapes : \A b \in AttachedTapes \ {a} :
                   \E i \in 1..Len(out) : {out[i].t1, out[i].t2} = {a, b}
        /\ (\E i \in 1..Len(out) : out[i].cmp = 1) => fault = "assert" /\ call.pc = "loop"

\* the segments reached from curr through left links and through right links
RleReached(t) ==
    LET h  == t.elems
        lw == WalkRight([a \in 1..MaxElems |-> [right |-> h[a].left]], t.curr, MaxElems + 1)
        rw == WalkRight(h, t.curr, MaxElems + 1)
    IN  {lw[i] : i \in 1..Len(lw)} \cup {rw[i] : i \in 1..Len(rw)}

\* curr is not freed, no freed segment is reached from curr, and every
\* segment not freed is reached from curr
RleOwned ==
    call.pc = "idle" =>
        /\ rle.curr \in LiveElems(rle.elems)
        /\ RleReached(rle) \subseteq LiveElems(rle.elems)
        /\ LiveElems(rle.elems) \subseteq RleReached(rle)

\* rle_tape_free passes every segment that was not freed to free, once
RleFreedOnce ==
    last'.op = "rle_tape_free" =>
        /\ fault' = "none"
        /\ {out'[i] : i \in 1..Len(out')} = LiveElems(rle.elems)
        /\ \A i, j \in 1..Len(out') : out'[i] = out'[j] => i = j
        /\ LiveElems(rle'.elems) = {}

\* C40: after any sequence of RLE writes and moves curr points to a segment
\* that has not been freed, no freed segment is reachable through left and
\* right links, and every segment allocated and not freed is reachable from
\* curr; rle_tape_free then releases every segment exactly once
C40_NoDanglingNoLeak == []RleOwned /\ [][RleFreedOnce]_vars

\* a tape of three segments or more, its head inside a segment, has been
\* freed
C40_Witness ==
    /\ last.op = "rle_tape_free"
    /\ fault = "none"
    /\ Len(out) >= 3
    /\ rle.rle_pos > 0

====
